---- MODULE Spec2Model ----
(***************************************************************************)
(* Model of the artifact-resolution pipeline of the document archive:      *)
(*   - Session & Checksum Grouper   (scripts/build_images_inventory.py)    *)
(*   - Content-Similarity Clusterer (scripts/refine_artifact_groups.py)    *)
(*   - Artifact Consolidator        (scripts/consolidate_artifacts.py)     *)
(*   - Date Resolver                (scripts/date_extractor.py)            *)
(* Each component has its own specification over the shared variables;     *)
(* the variables of the other components stay at their idle values.        *)
(***************************************************************************)
EXTENDS Integers, Sequences, FiniteSets, TLC

\* Python's None where a number is expected (times, years and counts are
\* never negative) and the empty string where an identifier is expected.
None == -1
EmptyStr == << >>

(***************************************************************************)
(* Generic helpers                                                         *)
(***************************************************************************)
\* f"{prefix}{n:04d}": zero-padded formatting is injective in (prefix, n),
\* so a formatted identifier is modelled by the pair it was built from.
Fmt(prefix, n) == <<prefix, n>>

\* the characters of f"{n:04d}": the decimal digits of n, at least 'width' of them
RECURSIVE Digits(_, _)
Digits(n, width) ==
    IF n < 10 /\ width <= 1 THEN <<n>>
    ELSE Append(Digits(n \div 10, width - 1), n % 10)

\* str < str on two strings of digits: the first place where they differ
\* decides, and a proper prefix comes first
RECURSIVE DigitsBefore(_, _)
DigitsBefore(a, b) ==
    IF a = << >> THEN b # << >>
    ELSE IF b = << >> THEN FALSE
    ELSE IF a[1] # b[1] THEN a[1] < b[1]
    ELSE DigitsBefore(Tail(a), Tail(b))

\* str < str on two identifiers formatted with the same prefix: from the
\* 10000th on the order of the strings is not that of the numbers
FmtBefore(id1, id2) == DigitsBefore(Digits(id1[2], 4), Digits(id2[2], 4))

RECURSIVE SumSeq(_)
SumSeq(s) == IF s = << >> THEN 0 ELSE Head(s) + SumSeq(Tail(s))

RECURSIVE MaxSeq(_)
MaxSeq(s) == IF Len(s) = 1 THEN s[1]
             ELSE LET m == MaxSeq(Tail(s)) IN IF s[1] >= m THEN s[1] ELSE m

RECURSIVE MinSeq(_)
MinSeq(s) == IF Len(s) = 1 THEN s[1]
             ELSE LET m == MinSeq(Tail(s)) IN IF s[1] <= m THEN s[1] ELSE m

(***************************************************************************)
(* Bounds                                                                  *)
(***************************************************************************)
\* largest number of image files the Grouper is run on
MaxImages == 3
\* number of distinct file contents (sha256 digests) among the images
MaxDigests == 2

(***************************************************************************)
(* State                                                                   *)
(***************************************************************************)
VARIABLES
    \* ---- Grouper (build_images_inventory.main) ----
    g_pc,             \* position in main: "idle","gather","sort","scan","write","done"
    images,           \* gather_images(): per file its metadata time, mtime, digest
    rows_tmp,         \* list of (created_dt, ImageRow)
    g_i,              \* index of the next element of rows_tmp the scan loop takes
    digest_to_group,  \* dict sha256 -> duplicate group id
    digest_first_path,\* dict sha256 -> relative_path of the first row with it
    group_counter,
    session_id,
    last_dt,
    session_indices,  \* dict session number -> rows counted so far
    finalized_rows,
    out_csv,          \* rows written to csv/images_inventory.csv
    \* ---- Clusterer (refine_artifact_groups.main) and the files it works on ----
    inventory,        \* rows of csv/images_inventory_labeled.csv
    ocr_text,         \* output/ocr/text: image id -> transcription ("" when absent)
    review_queue,     \* rows of csv/artifact_review_queue.csv
    refine_runs,      \* Clusterer runs since a transcription or the labels last changed
    ocr_saves,        \* transcriptions rewritten since the initial state
    \* ---- Consolidator (consolidate_artifacts.main) ----
    ocr_meta,         \* output/ocr/metadata: image id -> 'confidence' (None when absent)
    c_pc,             \* position in main: "idle","start","groups","done"
    c_args,           \* the command line: skip_review, confident_only
    c_inventory,      \* load_inventory(): the rows consolidated, in file order
    c_groups,         \* group_by_artifact(): (ag_id, img_ids) in dict order
    c_i,              \* index of the next group the loop of main takes
    archive,          \* output/archive: artifacts written to documents/, research/
    stats,
    \* ---- Date Resolver (date_extractor.get_best_date) ----
    d_pc,             \* "idle", "start" (arguments bound), "done" (get_best_date
                      \* returned), "parsed" (parse_ocr_for_document_date returned)
    d_row,            \* inventory_row: item_type, item_title, notes
    d_ocr_text,       \* argument ocr_text
    d_ocr_confidence, \* argument ocr_confidence
    d_ocr_date,       \* locals (ocr_year, ocr_conf)
    d_title_date,     \* locals (title_year, title_conf)
    d_result,         \* the tuple returned
    \* ---- grouping of a list of similarities (refine_artifact_groups) ----
    s_pc,             \* "idle", "start" (list bound), "done" (groups proposed)
    all_similarities_list, \* all_similarities: (id1, id2, sim) in thousandths
    content_groups,   \* items of the dict find_content_groups returns
    group_proposals,  \* per multi-image group: new id, confidence, review flag
    \* ---- dedupe_images_inventory.main ----
    in_csv,           \* IN_CSV: the rows of the labeled inventory, in file order
    csv_before,       \* the rows the latest run read from IN_CSV
    dedupe_runs       \* runs of dedupe_images_inventory so far

gvars == <<g_pc, images, rows_tmp, g_i, digest_to_group, digest_first_path,
           group_counter, session_id, last_dt, session_indices,
           finalized_rows, out_csv>>

rvars == <<inventory, ocr_text, review_queue, refine_runs, ocr_saves>>

cvars == <<ocr_meta, c_pc, c_args, c_inventory, c_groups, c_i, archive, stats>>

dvars == <<d_pc, d_row, d_ocr_text, d_ocr_confidence, d_ocr_date, d_title_date,
           d_result>>

svars == <<s_pc, all_similarities_list, content_groups, group_proposals>>

uvars == <<in_csv, csv_before, dedupe_runs>>

vars == <<gvars, rvars, cvars, dvars, svars, uvars>>

\* the Clusterer has not run and no labeled inventory is followed
RIdle ==
    /\ inventory = << >>
    /\ ocr_text = << >>
    /\ review_queue = << >>
    /\ refine_runs = 0
    /\ ocr_saves = 0

\* the Consolidator is not running and the archive is empty
CIdle ==
    /\ ocr_meta = << >>
    /\ c_pc = "idle"
    /\ c_args = [skip_review |-> FALSE, confident_only |-> FALSE]
    /\ c_inventory = << >>
    /\ c_groups = << >>
    /\ c_i = 1
    /\ archive = [documents |-> << >>, research |-> << >>]
    /\ stats = << >>

\* no date is being resolved
DIdle ==
    /\ d_pc = "idle"
    /\ d_row = << >>
    /\ d_ocr_text = << >>
    /\ d_ocr_confidence = 0
    /\ d_ocr_date = << >>
    /\ d_title_date = << >>
    /\ d_result = << >>

\* no list of similarities is being grouped
SIdle ==
    /\ s_pc = "idle"
    /\ all_similarities_list = << >>
    /\ content_groups = << >>
    /\ group_proposals = << >>

\* no inventory is being deduplicated
UIdle ==
    /\ in_csv = << >>
    /\ csv_before = << >>
    /\ dedupe_runs = 0

(***************************************************************************)
(* Session & Checksum Grouper                                              *)
(***************************************************************************)
session_threshold_sec == 90

\* Capture times (seconds) read from image metadata, and filesystem mtimes.
\* The gaps between them include 1, 89, 90 (not a new session) and 91, 92
\* (a new session).
Times == {0, 90, 91, 182}
MTimes == {1, 181}
Digests == 1..MaxDigests

\* What the scan of one file yields: created_dt (None when neither metadata
\* nor filesystem time could be parsed), the file's mtime, its digest.
ImageInputs ==
    [dt : Times, file_mtime : {1}, sha256 : Digests]
    \cup [dt : {None}, file_mtime : MTimes, sha256 : Digests]

\* ImageRow(...) as constructed in main for the idx-th path.
NewImageRow(idx, img) ==
    [id |-> Fmt("img_", idx),
     relative_path |-> Fmt("raw/imgs/", idx),
     sha256 |-> img.sha256,
     file_mtime |-> img.file_mtime,
     duplicate_group_id |-> EmptyStr,
     duplicate_of |-> EmptyStr,
     session_group_id |-> EmptyStr,
     session_index |-> 0,
     seconds_since_prev |-> None,
     artifact_group_id |-> EmptyStr]

\* sort_key(t): dt or datetime.fromisoformat(row.file_mtime)
sort_key(t) == IF t.dt # None THEN t.dt ELSE t.row.file_mtime

\* list.sort(key=...) is stable: an element goes after every element already
\* placed whose key is <= its own.
RECURSIVE InsertByKey(_, _)
InsertByKey(sorted, t) ==
    IF sorted = << >> THEN <<t>>
    ELSE IF sort_key(Head(sorted)) <= sort_key(t)
         THEN <<Head(sorted)>> \o InsertByKey(Tail(sorted), t)
         ELSE <<t>> \o sorted

RECURSIVE StableSort(_)
StableSort(s) ==
    IF s = << >> THEN << >>
    ELSE InsertByKey(StableSort(SubSeq(s, 1, Len(s) - 1)), s[Len(s)])

GInit ==
    /\ g_pc = "gather"
    /\ images \in UNION {[1..n -> ImageInputs] : n \in 0..MaxImages}
    /\ rows_tmp = << >>
    /\ g_i = 1
    /\ digest_to_group = << >>
    /\ digest_first_path = << >>
    /\ group_counter = 0
    /\ session_id = 0
    /\ last_dt = None
    /\ session_indices = << >>
    /\ finalized_rows = << >>
    /\ out_csv = << >>

\* The Grouper alone: the files of the later stages do not exist yet.
GInitAll ==
    /\ GInit
    /\ RIdle
    /\ CIdle
    /\ DIdle
    /\ SIdle
    /\ UIdle

\* main, lines 145-194: one (created_dt, row) per image, ids in path order
GatherRows ==
    /\ g_pc = "gather"
    /\ rows_tmp' = [idx \in 1..Len(images) |->
                      [dt |-> images[idx].dt, row |-> NewImageRow(idx, images[idx])]]
    /\ g_pc' = "sort"
    /\ UNCHANGED <<images, g_i, digest_to_group, digest_first_path, group_counter,
                   session_id, last_dt, session_indices, finalized_rows, out_csv>>
    /\ UNCHANGED <<rvars, cvars, dvars, svars, uvars>>

\* main, line 201
SortRows ==
    /\ g_pc = "sort"
    /\ rows_tmp' = StableSort(rows_tmp)
    /\ g_pc' = "scan"
    /\ UNCHANGED <<images, g_i, digest_to_group, digest_first_path, group_counter,
                   session_id, last_dt, session_indices, finalized_rows, out_csv>>
    /\ UNCHANGED <<rvars, cvars, dvars, svars, uvars>>

\* dict[key] = value
DictSet(d, key, value) ==
    [k \in DOMAIN d \cup {key} |-> IF k = key THEN value ELSE d[k]]

\* A slip that loses the digest -> group entry of a first-seen digest.
digest_to_group_store_forget(d2g, sha, group_id) == d2g

\* main, lines 218 and 224: digest_to_group after the row with digest sha
digest_to_group_store(d2g, sha, group_id) ==
    IF sha \in DOMAIN d2g THEN d2g ELSE DictSet(d2g, sha, group_id)

\* A slip that records the path of every row, so the last one wins.
digest_first_path_store_last(dfp, sha, path) == DictSet(dfp, sha, path)

\* main, lines 218 and 225: digest_first_path after the row with digest sha
digest_first_path_store(dfp, sha, path) ==
    IF sha \in DOMAIN dfp THEN dfp ELSE DictSet(dfp, sha, path)

\* A slip that opens a session already at a gap equal to the threshold.
starts_new_session_ge(last, current_dt) ==
    \/ last = None
    \/ current_dt - last >= session_threshold_sec

\* main, line 230: the condition under which a row opens a new session
starts_new_session(last, current_dt) ==
    \/ last = None
    \/ current_dt - last > session_threshold_sec

\* A slip that lets the index of a new session go on from that of the
\* session before it.
open_session_continue(indices, sid) ==
    DictSet(indices, sid, IF sid - 1 \in DOMAIN indices THEN indices[sid - 1] ELSE 0)

\* main, line 234: session_indices[session_id] = 0
open_session(indices, sid) == DictSet(indices, sid, 0)

\* A slip that leaves exact duplicates out of the inventory.
finalize_row_skip_duplicate(rows, row) ==
    IF row.duplicate_of # EmptyStr THEN rows ELSE Append(rows, row)

\* main, line 243: finalized_rows.append(row)
finalize_row(rows, row) == Append(rows, row)

\* main, lines 216-243: one iteration of the scan loop
ScanRow ==
    /\ g_pc = "scan"
    /\ g_i <= Len(rows_tmp)
    /\ LET dt == rows_tmp[g_i].dt
           row == rows_tmp[g_i].row
           seen == row.sha256 \in DOMAIN digest_to_group
           group_id == Fmt("D", group_counter + 1)
           current_dt == IF dt # None THEN dt ELSE row.file_mtime
           new_session == starts_new_session(last_dt, current_dt)
           sid == IF new_session THEN session_id + 1 ELSE session_id
           indices0 == IF new_session THEN open_session(session_indices, sid)
                       ELSE session_indices
           indices1 == [indices0 EXCEPT ![sid] = @ + 1]
           row1 == [row EXCEPT
                      !.duplicate_group_id =
                          IF seen THEN digest_to_group[row.sha256] ELSE group_id,
                      !.duplicate_of =
                          IF seen THEN digest_first_path[row.sha256] ELSE @,
                      !.session_group_id = Fmt("S", sid),
                      !.session_index = indices1[sid],
                      !.seconds_since_prev =
                          IF last_dt = None THEN None ELSE current_dt - last_dt,
                      !.artifact_group_id = Fmt("S", sid)]
       IN /\ group_counter' = IF seen THEN group_counter ELSE group_counter + 1
          /\ digest_to_group' =
                digest_to_group_store(digest_to_group, row.sha256, group_id)
          /\ digest_first_path' =
                digest_first_path_store(digest_first_path, row.sha256,
                                        row.relative_path)
          /\ session_id' = sid
          /\ session_indices' = indices1
          /\ last_dt' = current_dt
          /\ finalized_rows' = finalize_row(finalized_rows, row1)
          \* the fields are set on the ImageRow object that rows_tmp holds
          /\ rows_tmp' = [rows_tmp EXCEPT ![g_i].row = row1]
    /\ g_i' = g_i + 1
    /\ UNCHANGED <<g_pc, images, out_csv>>
    /\ UNCHANGED <<rvars, cvars, dvars, svars, uvars>>

\* main, lines 245-254
WriteCsv ==
    /\ g_pc = "scan"
    /\ g_i > Len(rows_tmp)
    /\ out_csv' = finalized_rows
    /\ g_pc' = "done"
    /\ UNCHANGED <<images, rows_tmp, g_i, digest_to_group, digest_first_path,
                   group_counter, session_id, last_dt, session_indices,
                   finalized_rows>>
    /\ UNCHANGED <<rvars, cvars, dvars, svars, uvars>>

GNext == GatherRows \/ SortRows \/ ScanRow \/ WriteCsv

SpecGrouper == GInitAll /\ [][GNext]_vars

(***************************************************************************)
(* OCR texts and their similarity                                          *)
(***************************************************************************)
\* The transcriptions the model draws from.  PoolTexts are whitespace-normal
\* texts of 20 characters; RatioTable[i][j] is
\* SequenceMatcher(None, PoolTexts[i], PoolTexts[j]).ratio() in thousandths
\* (of 20-character texts every ratio is a multiple of 0.05, so exact).
PoolTexts ==
    <<"abcdefghijklmnopqrst", "abcdefghijklmnopqrUV", "WXcdefghijklmnopqrUV",
      "abcdefghijklmnopqXYZ", "abcdefghij0123456789", "0123456789ABCDEFqrst",
      "0123456789ABCDEGHrst", "abcdefgh@#$%^&*()_+=">>

RatioTable ==
    << <<1000,  900,  800,  850,  500,  200,  150,  400>>,
       << 900, 1000,  900,  850,  500,  100,   50,  400>>,
       << 800,  900, 1000,  750,  400,  100,   50,  300>>,
       << 850,  850,  750, 1000,  500,   50,    0,  400>>,
       << 500,  500,  400,  500, 1000,  500,  500,  400>>,
       << 200,  100,  100,   50,  500, 1000,  900,    0>>,
       << 150,   50,   50,    0,  500,  900, 1000,    0>>,
       << 400,  400,  300,  400,  400,    0,    0, 1000>> >>

\* a transcription that is only whitespace, and one with stray whitespace
BlankText == "  "
PaddedText == " abcdefghijklmnopqrst  "

\* ' '.join(text.split()) on the texts of the model
NormalizeWhitespace(text) ==
    IF text = BlankText THEN ""
    ELSE IF text = PaddedText THEN PoolTexts[1]
    ELSE text

\* SequenceMatcher(None, t1, t2).ratio() in thousandths; difflib returns 1.0
\* for two empty sequences and 0.0 when exactly one is empty.
SequenceMatcherRatio(t1, t2) ==
    IF t1 = "" /\ t2 = "" THEN 1000
    ELSE IF t1 = "" \/ t2 = "" THEN 0
    ELSE LET i == CHOOSE i \in 1..Len(PoolTexts) : PoolTexts[i] = t1
             j == CHOOSE j \in 1..Len(PoolTexts) : PoolTexts[j] = t2
         IN RatioTable[i][j]

(***************************************************************************)
(* Content-Similarity Clusterer                                            *)
(***************************************************************************)
HIGH_SIMILARITY == 850
MEDIUM_SIMILARITY == 400
LOW_SIMILARITY == 150
\* thresholds of main, line 226: confidence < 0.6, len(member_ids) > 5
REVIEW_CONFIDENCE == 600
REVIEW_GROUP_SIZE == 5

\* A slip that compares the normalised texts without any test for emptiness.
text_similarity_unguarded(text1, text2) ==
    SequenceMatcherRatio(NormalizeWhitespace(text1), NormalizeWhitespace(text2))

\* refine_artifact_groups.text_similarity
text_similarity(text1, text2) ==
    IF text1 = "" \/ text2 = "" THEN 0
    ELSE LET t1 == NormalizeWhitespace(text1)
             t2 == NormalizeWhitespace(text2)
         IN IF t1 = "" \/ t2 = "" THEN 0
            ELSE SequenceMatcherRatio(t1, t2)

\* all_texts.get(id, ''): all_texts holds only the non-empty texts
all_texts_get(texts, id) == IF id \in DOMAIN texts THEN texts[id] ELSE ""

\* analyze_session_content: the pairs (ids[i], ids[j]), i < j, in loop order,
\* that both have text and whose similarity is above LOW_SIMILARITY
RECURSIVE analyze_pairs(_, _, _, _)
analyze_pairs(ids, texts, i, j) ==
    IF i > Len(ids) THEN << >>
    ELSE IF j > Len(ids) THEN analyze_pairs(ids, texts, i + 1, i + 2)
    ELSE LET t1 == all_texts_get(texts, ids[i])
             t2 == all_texts_get(texts, ids[j])
             sim == text_similarity(t1, t2)
             hit == IF t1 # "" /\ t2 # "" /\ sim > LOW_SIMILARITY
                    THEN << <<ids[i], ids[j], sim>> >> ELSE << >>
         IN hit \o analyze_pairs(ids, texts, i, j + 1)

analyze_session_content(session_ids, texts) ==
    analyze_pairs(session_ids, texts, 1, 2)

\* find(x) of find_content_groups without the path compression, which does
\* not change the root that is returned
RECURSIVE find(_, _)
find(parent, x) == IF parent[x] = x THEN x ELSE find(parent, parent[x])

\* find(x) inserts x into parent when it is new; ord is the insertion order
\* of the dict
touch(st, x) ==
    IF x \in DOMAIN st.parent THEN st
    ELSE [parent |-> [k \in DOMAIN st.parent \cup {x} |->
                         IF k = x THEN x ELSE st.parent[k]],
          ord |-> Append(st.ord, x)]

\* union(x, y): px, py = find(x), find(y); if px != py: parent[px] = py
union(st, x, y) ==
    LET st2 == touch(touch(st, x), y)
        px == find(st2.parent, x)
        py == find(st2.parent, y)
    IN IF px # py THEN [st2 EXCEPT !.parent[px] = py] ELSE st2

\* A slip that joins a pair only when its similarity is above the threshold.
joins_pair_strictly_above(sim, threshold) == sim > threshold

\* find_content_groups, line 126
joins_pair(sim, threshold) == sim >= threshold

RECURSIVE connect(_, _, _, _)
connect(similarities, threshold, k, st) ==
    IF k > Len(similarities) THEN st
    ELSE LET s == similarities[k]
         IN connect(similarities, threshold, k + 1,
                    IF joins_pair(s[3], threshold) THEN union(st, s[1], s[2])
                    ELSE st)

\* "Collect groups": roots in the order the dict meets them
RECURSIVE group_roots(_, _, _)
group_roots(st, k, acc) ==
    IF k > Len(st.ord) THEN acc
    ELSE LET root == find(st.parent, st.ord[k])
         IN group_roots(st, k + 1,
                        IF \E h \in 1..Len(acc) : acc[h] = root THEN acc
                        ELSE Append(acc, root))

\* members of the group of root, in insertion order
group_members(st, root) ==
    SelectSeq(st.ord, LAMBDA id : find(st.parent, id) = root)

\* find_content_groups: the items of the returned dict, in dict order
find_content_groups(similarities, threshold) ==
    LET st == connect(similarities, threshold, 1, [parent |-> << >>, ord |-> << >>])
        roots == group_roots(st, 1, << >>)
    IN [g \in 1..Len(roots) |->
          [root |-> roots[g], member_ids |-> group_members(st, roots[g])]]

InGroup(group_ids, id) == \E h \in 1..Len(group_ids) : group_ids[h] = id

(***************************************************************************)
(* Python floats.  A natural number is the sequence of its binary digits,  *)
(* most significant first (0 is the empty sequence); a non-negative double *)
(* is [m, e] with the value m * 2^e and m of at most 53 digits.            *)
(* The arithmetic on digit sequences goes in limbs of 12 binary digits,   *)
(* so that no intermediate number passes the 32-bit integers of TLC.       *)
(***************************************************************************)
RECURSIVE BitsOf(_)
BitsOf(n) == IF n = 0 THEN << >> ELSE Append(BitsOf(n \div 2), n % 2)

RECURSIVE NatOf(_)
NatOf(bits) ==
    IF bits = << >> THEN 0
    ELSE 2 * NatOf(SubSeq(bits, 1, Len(bits) - 1)) + bits[Len(bits)]

Zeros(k) == [i \in 1..k |-> 0]

\* without leading zeros
Normal(bits) ==
    IF \A i \in 1..Len(bits) : bits[i] = 0 THEN << >>
    ELSE SubSeq(bits,
                CHOOSE i \in 1..Len(bits) :
                    bits[i] = 1 /\ \A j \in 1..(i - 1) : bits[j] = 0,
                Len(bits))

\* m * 2^k
ShiftLeft(m, k) == IF m = << >> THEN << >> ELSE m \o Zeros(k)

\* The arithmetic is done on groups of 12 binary digits, numbers below 4096,
\* most significant first.
LimbsOf(bits) ==
    LET nl == (Len(bits) + 11) \div 12
        p == Zeros(12 * nl - Len(bits)) \o bits
    IN [j \in 1..nl |-> NatOf(SubSeq(p, 12 * (j - 1) + 1, 12 * j))]

BitsOfLimbs(limbs) ==
    Normal([i \in 1..(12 * Len(limbs)) |->
               (limbs[((i - 1) \div 12) + 1] \div 2^(11 - ((i - 1) % 12))) % 2])

RECURSIVE LimbsAdd(_, _, _, _, _)
LimbsAdd(a, b, i, carry, acc) ==
    IF i = 0 THEN <<carry>> \o acc
    ELSE LET t == a[i] + b[i] + carry
             carry2 == t \div 4096
             acc2 == <<t % 4096>> \o acc
         IN IF carry2 >= 0 /\ Len(acc2) > 0
            THEN LimbsAdd(a, b, i - 1, carry2, acc2) ELSE << >>

\* a + b
BitsAdd(a, b) ==
    LET la == LimbsOf(a)
        lb == LimbsOf(b)
        n == IF Len(la) > Len(lb) THEN Len(la) ELSE Len(lb)
    IN BitsOfLimbs(LimbsAdd(Zeros(n - Len(la)) \o la, Zeros(n - Len(lb)) \o lb,
                            n, 0, << >>))

\* the sum of the products of the groups of a and b whose places add up to
\* k, places counted from the least significant group, which has place 0
Column(la, lb, k) ==
    LET lo == IF k - (Len(lb) - 1) > 0 THEN k - (Len(lb) - 1) ELSE 0
        hi == IF k < Len(la) - 1 THEN k ELSE Len(la) - 1
    IN SumSeq([h \in 1..(hi - lo + 1) |->
                  la[Len(la) - (lo + h - 1)] * lb[Len(lb) - (k - (lo + h - 1))]])

RECURSIVE Carried(_, _, _, _)
Carried(cols, k, carry, acc) ==
    IF k > Len(cols) THEN <<carry>> \o acc
    ELSE LET t == cols[k] + carry
             carry2 == t \div 4096
             acc2 == <<t % 4096>> \o acc
         IN IF carry2 >= 0 /\ Len(acc2) > 0
            THEN Carried(cols, k + 1, carry2, acc2) ELSE << >>

\* a * b
BitsMul(a, b) ==
    IF a = << >> \/ b = << >> THEN << >>
    ELSE LET la == LimbsOf(a)
             lb == LimbsOf(b)
             cols == [k \in 1..(Len(la) + Len(lb) - 1) |-> Column(la, lb, k - 1)]
         IN BitsOfLimbs(Carried(cols, 1, 0, << >>))

RECURSIVE LimbsDiv(_, _, _, _, _)
LimbsDiv(a, d, i, r, q) ==
    IF i > Len(a) THEN [q |-> q, r |-> r]
    ELSE LET t == r * 4096 + a[i]
             r2 == t % d
             q2 == Append(q, t \div d)
         IN IF r2 >= 0 /\ Len(q2) > 0
            THEN LimbsDiv(a, d, i + 1, r2, q2) ELSE [q |-> << >>, r |-> 0]

\* quotient and remainder of a by the number d, 0 < d < 2^15
BitsDiv(a, d) ==
    LET x == LimbsDiv(LimbsOf(a), d, 1, 0, << >>)
    IN [q |-> BitsOfLimbs(x.q), r |-> x.r]

\* m * 2^e with the trailing zeros of m moved into the exponent
Trimmed(m, e) ==
    IF m = << >> THEN [m |-> << >>, e |-> 0]
    ELSE LET last == CHOOSE i \in 1..Len(m) :
                        m[i] = 1 /\ \A j \in (i + 1)..Len(m) : m[j] = 0
         IN [m |-> SubSeq(m, 1, last), e |-> e + Len(m) - last]

\* round to nearest, ties to even: the double nearest to m * 2^e, or, when
\* 'more' holds (then m has more than 53 digits), to a value above m * 2^e
\* and below (m + 1) * 2^e
NearestDouble(m, e, more) ==
    IF Len(m) <= 53 THEN Trimmed(m, e)
    ELSE LET top == SubSeq(m, 1, 53)
             half == m[54]
             rest == more \/ \E i \in 55..Len(m) : m[i] = 1
             up == half = 1 /\ (rest \/ top[53] = 1)
         IN Trimmed(IF up THEN BitsAdd(top, <<1>>) ELSE top, e + Len(m) - 53)

DoubleZero == [m |-> << >>, e |-> 0]

\* the double of a decimal with three places, k thousandths: what
\* round(ratio, 3) returns and what the literals 0.7 and 0.3 denote
DoubleOfThousandths(k) ==
    LET d == BitsDiv(ShiftLeft(BitsOf(k), 70), 1000)
    IN NearestDouble(d.q, -70, d.r # 0)

\* x + y
DoubleAdd(x, y) ==
    LET e == IF x.e < y.e THEN x.e ELSE y.e
    IN NearestDouble(BitsAdd(ShiftLeft(x.m, x.e - e), ShiftLeft(y.m, y.e - e)),
                     e, FALSE)

\* x * y
DoubleMul(x, y) == NearestDouble(BitsMul(x.m, y.m), x.e + y.e, FALSE)

\* x / n for a positive int n below 2^15
DoubleDivInt(x, n) ==
    LET d == BitsDiv(ShiftLeft(x.m, 70), n)
    IN NearestDouble(d.q, x.e - 70, d.r # 0)

\* sum(xs) of doubles given in thousandths: added one by one from the left
RECURSIVE DoubleSum(_, _)
DoubleSum(xs, acc) ==
    IF xs = << >> THEN acc
    ELSE LET acc2 == DoubleAdd(acc, DoubleOfThousandths(Head(xs)))
         IN IF acc2.e = acc2.e THEN DoubleSum(Tail(xs), acc2) ELSE acc

\* round(x, 3) of a double, in thousandths: the decimal of three places
\* nearest to the exact value of x, ties to even
DoubleRound3(x) ==
    LET n == BitsMul(x.m, BitsOf(1000))
    IN IF x.e >= 0 THEN NatOf(ShiftLeft(n, x.e))
       ELSE LET f == -x.e
                p == Zeros(IF f + 1 > Len(n) THEN f + 1 - Len(n) ELSE 0) \o n
                il == Len(p) - f
                q == NatOf(SubSeq(p, 1, il))
                rest == \E i \in (il + 2)..Len(p) : p[i] = 1
            IN IF p[il + 1] = 0 THEN q
               ELSE IF rest THEN q + 1
               ELSE IF q % 2 = 0 THEN q ELSE q + 1

\* round(x, 3), in thousandths, of the double x the code computed for the
\* exact value num/den thousandths (den below 10^6).  When num/den is not
\* halfway between two thousandths it is at least 1/(2 den) thousandths away
\* from halfway, far more than the error of x, and the nearest thousandth of
\* num/den is the result.  When it is halfway, the error of x decides.
Round3(num, den, x) ==
    LET q == num \div den
        r == num % den
    IN IF 2 * r < den THEN q
       ELSE IF 2 * r > den THEN q + 1
       ELSE DoubleRound3(x)

\* sum(group_sims) / len(group_sims)
avg_sim(group_sims) == DoubleDivInt(DoubleSum(group_sims, DoubleZero), Len(group_sims))

\* A slip that scores a group by its average similarity alone, leaving the
\* weakest pair unweighted.
calculate_group_confidence_mean(group_ids, similarities) ==
    IF Len(group_ids) <= 1 THEN 1000
    ELSE LET hits == SelectSeq(similarities,
                        LAMBDA s : InGroup(group_ids, s[1]) /\ InGroup(group_ids, s[2]))
             group_sims == [k \in 1..Len(hits) |-> hits[k][3]]
             n == Len(group_sims)
         IN IF n = 0 THEN 500
            ELSE Round3(SumSeq(group_sims), n, avg_sim(group_sims))

\* calculate_group_confidence, in thousandths
calculate_group_confidence(group_ids, similarities) ==
    IF Len(group_ids) <= 1 THEN 1000
    ELSE LET hits == SelectSeq(similarities,
                        LAMBDA s : InGroup(group_ids, s[1]) /\ InGroup(group_ids, s[2]))
             group_sims == [k \in 1..Len(hits) |-> hits[k][3]]
             n == Len(group_sims)
         IN IF n = 0 THEN 500
            ELSE \* avg_sim * 0.7 + min_sim * 0.3
                 Round3(7 * SumSeq(group_sims) + 3 * n * MinSeq(group_sims), 10 * n,
                        DoubleAdd(DoubleMul(avg_sim(group_sims),
                                            DoubleOfThousandths(700)),
                                  DoubleMul(DoubleOfThousandths(MinSeq(group_sims)),
                                            DoubleOfThousandths(300))))

\* largest number of rows in the labeled inventory the Clusterer is run on
MaxRecords == 3
\* how many transcriptions are rewritten after the initial OCR pass
MaxOcrSaves == 1
\* how many times in a row the Clusterer is run on unchanged transcriptions
MaxRefineRuns == 2

\* transcriptions the OCR stage may leave for an image
RefineTexts ==
    {"", BlankText, PoolTexts[1], PoolTexts[2], PoolTexts[5], PoolTexts[6],
     PoolTexts[7], PoolTexts[8]}

\* A row of the labeled inventory as build_images_inventory and
\* merge_image_labels leave it: the link type is session_default, the
\* confidence is empty, needs_review is 'False'; the artifact group is the
\* session unless the label response of the row gives one ('label' is << >>
\* without a response or with null in it, and <<v>> for the value v).
LabeledRow(idx, sid, label) ==
    [id |-> Fmt("img_", idx),
     session_group_id |-> Fmt("S", sid),
     artifact_group_id |-> IF label # << >> THEN label[1] ELSE Fmt("S", sid),
     artifact_link_type |-> "session_default",
     artifact_confidence |-> None,
     needs_review |-> "False"]

\* prompts/images_label_responses.jsonl for n images, as the artifact group
\* each response gives: the labeller refined none, or put the first image
\* into a group of its own naming
LabelResponses(n) ==
    {[idx \in 1..n |-> << >>],
     [idx \in 1..n |-> IF idx = 1 THEN <<Fmt("S", 7)>> ELSE << >>]}

\* session numbers as the Grouper assigns them along the rows: they start at
\* 1 and grow by at most one from a row to the next
SessionNumberings(n) ==
    {f \in [1..n -> 1..n] :
        /\ f[1] = 1
        /\ \A k \in 2..n : f[k] = f[k - 1] \/ f[k] = f[k - 1] + 1}

RowIds(rows) == {rows[k].id : k \in 1..Len(rows)}

RInit ==
    /\ \E n \in 1..MaxRecords : \E f \in SessionNumberings(n) :
          \E labels \in LabelResponses(n) :
             inventory = [idx \in 1..n |-> LabeledRow(idx, f[idx], labels[idx])]
    /\ ocr_text \in [RowIds(inventory) -> RefineTexts]
    /\ review_queue = << >>
    /\ refine_runs = 0
    /\ ocr_saves = 0

\* the Grouper is idle while the later stages run
GIdle ==
    /\ g_pc = "idle"
    /\ images = << >>
    /\ rows_tmp = << >>
    /\ g_i = 1
    /\ digest_to_group = << >>
    /\ digest_first_path = << >>
    /\ group_counter = 0
    /\ session_id = 0
    /\ last_dt = None
    /\ session_indices = << >>
    /\ finalized_rows = << >>
    /\ out_csv = << >>

\* len(text.split()): the texts of the model other than '' and the blank
\* text are one word
total_words(text) == IF text \in {"", BlankText} THEN 0 ELSE 1

\* ocr.py, _estimate_confidence, in thousandths: no text of the model holds
\* '[?]' or '[illegible]', so a text with a word in it is rated 1.0
estimate_confidence(text) ==
    IF text = "" THEN 0
    ELSE IF total_words(text) = 0 THEN 0
    ELSE 1000

\* ocr.py, _save_results: the transcription of one image is written, and
\* with it the metadata file that holds its confidence
SaveOcr ==
    /\ ocr_saves < MaxOcrSaves
    /\ ocr_saves' = ocr_saves + 1
    /\ \E id \in RowIds(inventory) : \E text \in RefineTexts :
          /\ ocr_text' = [ocr_text EXCEPT ![id] = text]
          /\ ocr_meta' = DictSet(ocr_meta, id, estimate_confidence(text))
          /\ refine_runs' = IF ocr_text[id] = text THEN refine_runs ELSE 0
    /\ UNCHANGED <<inventory, review_queue>>
    /\ UNCHANGED <<c_pc, c_args, c_inventory, c_groups, c_i, archive, stats>>
    /\ UNCHANGED <<gvars, dvars, svars, uvars>>

\* merge_image_labels.main run again: the labeled inventory is rebuilt from
\* the inventory of the Grouper and the label responses of the moment, and
\* what the Clusterer had written into it is gone
MergeLabels ==
    /\ \E labels \in LabelResponses(Len(inventory)) :
          inventory' = [idx \in 1..Len(inventory) |->
                           LabeledRow(idx, inventory[idx].session_group_id[2],
                                      labels[idx])]
    /\ refine_runs' = 0
    /\ UNCHANGED <<ocr_text, review_queue, ocr_saves>>
    /\ UNCHANGED <<gvars, cvars, dvars, svars, uvars>>

\* main, lines 177-182: session ids in the order the dict meets them
RECURSIVE session_order(_, _, _)
session_order(rows, k, acc) ==
    IF k > Len(rows) THEN acc
    ELSE session_order(rows, k + 1,
            IF rows[k].session_group_id = EmptyStr
               \/ \E h \in 1..Len(acc) : acc[h] = rows[k].session_group_id
            THEN acc ELSE Append(acc, rows[k].session_group_id))

\* A slip that hands the images of the whole inventory over as one session.
session_ids_of_inventory(rows, sid) == [k \in 1..Len(rows) |-> rows[k].id]

\* ids of the rows of one session, in row order
session_ids(rows, sid) ==
    LET members == SelectSeq(rows, LAMBDA r : r.session_group_id = sid)
    IN [k \in 1..Len(members) |-> members[k].id]

\* main, lines 186-192
load_all_texts(rows, texts) ==
    [id \in {i \in RowIds(rows) : texts[i] # ""} |-> texts[id]]

\* main, lines 196-200
RECURSIVE collect_similarities(_, _, _, _)
collect_similarities(rows, texts, order, k) ==
    IF k > Len(order) THEN << >>
    ELSE analyze_session_content(session_ids(rows, order[k]), texts)
         \o collect_similarities(rows, texts, order, k + 1)

all_similarities(rows, texts) ==
    collect_similarities(rows, load_all_texts(rows, texts),
                         session_order(rows, 1, << >>), 1)

\* A slip that keeps counting groups where the inventory left off, so that
\* ids of an earlier run are not reused.
new_group_id_continue(group_no) ==
    Fmt("CG", group_no
              + Cardinality({k \in 1..Len(inventory) :
                               inventory[k].artifact_link_type = "content_overlap"}))

\* main, lines 218-219
new_group_id(group_no) == Fmt("CG", group_no)

\* main, line 226
flag_for_review(confidence, size) ==
    confidence < REVIEW_CONFIDENCE \/ size > REVIEW_GROUP_SIZE

\* main, lines 215-229: the multi-image groups in dict order, each with its
\* new id, confidence and review flag
propose_groups(sims) ==
    LET groups == find_content_groups(sims, MEDIUM_SIMILARITY)
        multi == SelectSeq(groups, LAMBDA g : Len(g.member_ids) > 1)
    IN [k \in 1..Len(multi) |->
          LET confidence == calculate_group_confidence(multi[k].member_ids, sims)
          IN [group_id |-> new_group_id(k),
              member_ids |-> multi[k].member_ids,
              confidence |-> confidence,
              needs_review |->
                  flag_for_review(confidence, Len(multi[k].member_ids))]]

\* main, lines 186-229
proposed_groups(rows, texts) == propose_groups(all_similarities(rows, texts))

\* rows_by_id.get(img_id, {})
row_by_id(rows, id) == rows[CHOOSE k \in 1..Len(rows) : rows[k].id = id]

\* main, lines 231-242: the review items of one flagged group
review_items_of(rows, g) ==
    [m \in 1..Len(g.member_ids) |->
        LET row == row_by_id(rows, g.member_ids[m])
        IN [id |-> g.member_ids[m],
            proposed_group |-> g.group_id,
            current_group |-> row.artifact_group_id,
            session_group |-> row.session_group_id,
            confidence |-> g.confidence,
            reason |-> IF g.confidence < REVIEW_CONFIDENCE
                       THEN "low_confidence" ELSE "large_group",
            group_size |-> Len(g.member_ids)]]

RECURSIVE collect_review_items(_, _, _)
collect_review_items(rows, groups, k) ==
    IF k > Len(groups) THEN << >>
    ELSE (IF groups[k].needs_review THEN review_items_of(rows, groups[k])
          ELSE << >>)
         \o collect_review_items(rows, groups, k + 1)

\* str(needs_review)
StrBool(b) == IF b THEN "True" ELSE "False"

\* main, lines 246-261: one row of the updated inventory
update_row(row, groups) ==
    IF \E k \in 1..Len(groups) : InGroup(groups[k].member_ids, row.id)
    THEN LET g == groups[CHOOSE k \in 1..Len(groups) :
                            InGroup(groups[k].member_ids, row.id)]
         IN IF row.artifact_group_id # g.group_id
            THEN [row EXCEPT !.artifact_group_id = g.group_id,
                             !.artifact_link_type = "content_overlap",
                             !.artifact_confidence = g.confidence,
                             !.needs_review = StrBool(g.needs_review)]
            ELSE row
    ELSE IF row.artifact_link_type = "session_default"
         THEN [row EXCEPT !.artifact_confidence = 500]
         ELSE row

\* main of refine_artifact_groups: one whole run
RefineMain ==
    /\ refine_runs < MaxRefineRuns
    /\ refine_runs' = refine_runs + 1
    /\ LET groups == proposed_groups(inventory, ocr_text)
           review_items == collect_review_items(inventory, groups, 1)
       IN /\ inventory' = [k \in 1..Len(inventory) |->
                              update_row(inventory[k], groups)]
          /\ review_queue' = IF review_items # << >> THEN review_items
                             ELSE review_queue
    /\ UNCHANGED <<ocr_text, ocr_saves>>
    /\ UNCHANGED <<gvars, cvars, dvars, svars, uvars>>

RNext == SaveOcr \/ MergeLabels \/ RefineMain

\* The Clusterer on a labelled inventory, the Grouper having finished.
RInitAll ==
    /\ GIdle
    /\ RInit
    /\ CIdle
    /\ DIdle
    /\ SIdle
    /\ UIdle

SpecRefine == RInitAll /\ [][RNext]_vars

\* The Clusterer run again on its own output, no transcription being
\* rewritten and no labels being merged in between.
RerunNext == RefineMain

SpecRefineRerun == RInitAll /\ [][RerunNext]_vars

(***************************************************************************)
(* Grouping of a list of similarities                                      *)
(***************************************************************************)
\* number of images of the session the similarities are taken from
MaxSimilarityIds == 3

\* similarities that analyze_session_content keeps (above LOW_SIMILARITY)
SimilarityValues == {200, 399, 400, 600, 900}

\* the pairs (i, j), i < j, in the order of the loops of
\* analyze_session_content
RECURSIVE id_pairs(_, _, _)
id_pairs(n, i, j) ==
    IF i >= n THEN << >>
    ELSE IF j > n THEN id_pairs(n, i + 1, i + 2)
    ELSE << <<i, j>> >> \o id_pairs(n, i, j + 1)

\* the list analyze_session_content returns when pair k of the session has
\* the similarity choice[k], 0 standing for a pair that is not kept
similarity_list(pairs, choice) ==
    LET kept == SelectSeq([k \in 1..Len(pairs) |-> k], LAMBDA k : choice[k] # 0)
    IN [h \in 1..Len(kept) |->
          <<Fmt("img_", pairs[kept[h]][1]), Fmt("img_", pairs[kept[h]][2]),
            choice[kept[h]]>>]

SInit ==
    /\ s_pc = "start"
    /\ \E choice \in [1..Len(id_pairs(MaxSimilarityIds, 1, 2))
                         -> SimilarityValues \cup {0}] :
          all_similarities_list =
              similarity_list(id_pairs(MaxSimilarityIds, 1, 2), choice)
    /\ content_groups = << >>
    /\ group_proposals = << >>

SInitAll ==
    /\ GIdle
    /\ RIdle
    /\ CIdle
    /\ DIdle
    /\ SInit
    /\ UIdle

\* main, lines 204-229: the content groups and, for those of more than one
\* image, the new id, the confidence and the review flag
GroupSimilarities ==
    /\ s_pc = "start"
    /\ content_groups' = find_content_groups(all_similarities_list, MEDIUM_SIMILARITY)
    /\ group_proposals' = propose_groups(all_similarities_list)
    /\ s_pc' = "done"
    /\ UNCHANGED all_similarities_list
    /\ UNCHANGED <<gvars, rvars, cvars, dvars, uvars>>

SNext == GroupSimilarities

SpecGroups == SInitAll /\ [][SNext]_vars


(***************************************************************************)
(* Artifact Consolidator                                                   *)
(***************************************************************************)
SIMILARITY_THRESHOLD == 850
CONFIDENT_LINK_TYPES == {"content_overlap", "visual_match", "manual_curation"}
\* the separator of line 162; a string put together from pieces is modelled
\* by the sequence of its pieces
PAGE_BREAK == "\n\n---\n\n"

\* largest number of rows in the labeled inventory the Consolidator is run on
MaxArtifactRows == 3

\* What the OCR stage may leave for an image: a transcription and the
\* 'confidence' of its metadata (thousandths; None when there is no metadata
\* file or no transcription at all).
OcrResults ==
    {[text |-> "", confidence |-> None],
     [text |-> BlankText, confidence |-> 800],
     [text |-> PoolTexts[1], confidence |-> 800],
     [text |-> PoolTexts[2], confidence |-> 900],
     [text |-> PoolTexts[3], confidence |-> 800],
     [text |-> PoolTexts[4], confidence |-> None]}

\* The grouping columns of a row as the earlier stages or a curator leave
\* them: an image left in its session group, an image linked by hand whose
\* subject marks it as research material, and an image of a content group
\* that the Clusterer flagged for review.
RowProfiles ==
    <<[artifact_group_id |-> Fmt("S", 1),
       artifact_link_type |-> "session_default",
       artifact_confidence |-> 500,
       needs_review |-> "False",
       subject |-> "Minute book"],
      [artifact_group_id |-> Fmt("S", 1),
       artifact_link_type |-> "manual_curation",
       artifact_confidence |-> None,
       needs_review |-> "False",
       subject |-> "Handwritten research notes"],
      [artifact_group_id |-> Fmt("CG", 1),
       artifact_link_type |-> "content_overlap",
       artifact_confidence |-> 450,
       needs_review |-> "True",
       subject |-> ""]>>

ConsolidatorRow(idx, p, sidx) ==
    [id |-> Fmt("img_", idx),
     session_group_id |-> Fmt("S", 1),
     session_index |-> sidx,
     artifact_group_id |-> RowProfiles[p].artifact_group_id,
     artifact_link_type |-> RowProfiles[p].artifact_link_type,
     artifact_confidence |-> RowProfiles[p].artifact_confidence,
     needs_review |-> RowProfiles[p].needs_review,
     subject |-> RowProfiles[p].subject,
     notes |-> ""]

\* which profile each row has (rows of one profile follow each other)
ProfileLayouts(n) ==
    {f \in [1..n -> 1..Len(RowProfiles)] : \A k \in 2..n : f[k - 1] <= f[k]}

\* The images of the inventory were taken in one session, in the order of
\* their ids or in the opposite order.
CInit ==
    /\ \E n \in 1..MaxArtifactRows : \E f \in ProfileLayouts(n) :
       \E backwards \in BOOLEAN :
          inventory = [idx \in 1..n |->
                         ConsolidatorRow(idx, f[idx],
                                         IF backwards THEN n + 1 - idx ELSE idx)]
    /\ \E results \in [RowIds(inventory) -> OcrResults] :
          /\ ocr_text = [id \in RowIds(inventory) |-> results[id].text]
          /\ ocr_meta = [id \in RowIds(inventory) |-> results[id].confidence]
    /\ review_queue = << >>
    /\ refine_runs = 0
    /\ ocr_saves = 0
    /\ c_pc = "start"
    /\ c_args \in [skip_review : BOOLEAN, confident_only : BOOLEAN]
    /\ c_inventory = << >>
    /\ c_groups = << >>
    /\ c_i = 1
    /\ archive = [documents |-> << >>, research |-> << >>]
    /\ stats = << >>

CInitAll ==
    /\ GIdle
    /\ CInit
    /\ DIdle
    /\ SIdle
    /\ UIdle

\* row.get('needs_review', '').lower() == 'true'
needs_review_is_true(row) == row.needs_review \in {"True", "true", "TRUE"}

\* load_inventory: the rows in file order, flagged ones left out on request
load_inventory(rows, skip_needs_review) ==
    SelectSeq(rows, LAMBDA row : ~(skip_needs_review /\ needs_review_is_true(row)))

\* row.get('artifact_group_id') or img_id
ag_id_of(row) ==
    IF row.artifact_group_id # EmptyStr THEN row.artifact_group_id ELSE row.id

\* keys of the defaultdict of group_by_artifact in the order they are met
RECURSIVE group_order(_, _, _)
group_order(rows, k, acc) ==
    IF k > Len(rows) THEN acc
    ELSE group_order(rows, k + 1,
            IF \E h \in 1..Len(acc) : acc[h] = ag_id_of(rows[k])
            THEN acc ELSE Append(acc, ag_id_of(rows[k])))

\* the sort key (int(session_index or 0), id) of lines 112-115
member_key_before(r1, r2) ==
    \/ r1.session_index < r2.session_index
    \/ /\ r1.session_index = r2.session_index
       /\ FmtBefore(r1.id, r2.id)

\* the ids of a set of rows sorted by that key
RECURSIVE sort_members(_)
sort_members(rs) ==
    IF rs = {} THEN << >>
    ELSE LET first == CHOOSE r \in rs :
                         \A o \in rs \ {r} : member_key_before(r, o)
         IN <<first.id>> \o sort_members(rs \ {first})

\* group_by_artifact
group_by_artifact(rows) ==
    LET order == group_order(rows, 1, << >>)
    IN [g \in 1..Len(order) |->
          [ag_id |-> order[g],
           img_ids |-> sort_members({rows[k] : k \in {h \in 1..Len(rows) :
                                          ag_id_of(rows[h]) = order[g]}})]]

\* consolidate_artifacts.text_similarity: only the unnormalised texts are
\* tested for emptiness
consolidate_text_similarity(text1, text2) ==
    IF text1 = "" \/ text2 = "" THEN 0
    ELSE SequenceMatcherRatio(NormalizeWhitespace(text1),
                              NormalizeWhitespace(text2))

\* A slip that tests the text itself instead of text.strip().
NoStrip(text) == text

\* text.strip() on the texts of the model
Strip(text) == IF text = BlankText THEN "" ELSE NormalizeWhitespace(text)

\* metas[i].get('confidence', 0)
meta_confidence(conf) == IF conf = None THEN 0 ELSE conf

\* line 147
is_duplicate_text(text1, text2) ==
    consolidate_text_similarity(text1, text2) > SIMILARITY_THRESHOLD

\* A slip that also replaces the kept text when the confidences are equal.
better_transcription_or_equal(conf_i, conf_j) ==
    meta_confidence(conf_i) >= meta_confidence(conf_j)

\* line 150
better_transcription(conf_i, conf_j) ==
    meta_confidence(conf_i) > meta_confidence(conf_j)

\* lines 144-159: unique_indices once the texts from position i on have been
\* taken (unique_texts[h] is always texts[unique_indices[h]])
RECURSIVE cull_duplicates(_, _, _, _)
cull_duplicates(texts, metas, i, unique_indices) ==
    IF i > Len(texts) THEN unique_indices
    ELSE LET dups == {h \in 1..Len(unique_indices) :
                        is_duplicate_text(texts[i], texts[unique_indices[h]])}
         IN IF dups # {}
            THEN LET idx == CHOOSE h \in dups : \A o \in dups : h <= o
                     j == unique_indices[idx]
                 IN cull_duplicates(texts, metas, i + 1,
                        IF better_transcription(metas[i], metas[j])
                        THEN [unique_indices EXCEPT ![idx] = i]
                        ELSE unique_indices)
            ELSE cull_duplicates(texts, metas, i + 1,
                        IF Strip(texts[i]) # ""
                        THEN Append(unique_indices, i)
                        ELSE unique_indices)

\* sep.join(pieces) as the sequence of the pieces and separators
RECURSIVE Join(_, _)
Join(sep, pieces) ==
    IF Len(pieces) <= 1 THEN pieces
    ELSE <<pieces[1], sep>> \o Join(sep, Tail(pieces))

\* line 162
merge_texts(unique_texts) ==
    IF Len(unique_texts) > 1 THEN Join(PAGE_BREAK, unique_texts)
    ELSE IF Len(unique_texts) = 1 THEN <<unique_texts[1]>>
    ELSE << >>

\* any(kw in (subject + ' ' + notes).lower() for kw in RESEARCH_KEYWORDS) on
\* the subjects of the model
is_research_source(row) ==
    row.subject \in {"Handwritten research notes"}

\* consolidate_group; a quotient is kept as <<numerator, denominator>>
consolidate_group(ag_id, img_ids, rows) ==
    LET texts == [k \in 1..Len(img_ids) |-> ocr_text[img_ids[k]]]
        metas == [k \in 1..Len(img_ids) |-> ocr_meta[img_ids[k]]]
        confidences == SelectSeq(metas, LAMBDA c : c # None /\ c # 0)
        unique_indices == cull_duplicates(texts, metas, 1, << >>)
        unique_texts == [h \in 1..Len(unique_indices) |-> texts[unique_indices[h]]]
        first_row == row_by_id(rows, img_ids[1])
        link_types == [k \in 1..Len(img_ids) |->
                          row_by_id(rows, img_ids[k]).artifact_link_type]
        confident_links == Cardinality({k \in 1..Len(img_ids) :
                                link_types[k] \in CONFIDENT_LINK_TYPES})
    IN [artifact_group_id |-> ag_id,
        source_images |-> img_ids,
        unique_pages |-> Len(unique_texts),
        duplicate_pages_culled |-> Len(texts) - Len(unique_texts),
        merged_text |-> merge_texts(unique_texts),
        subject |-> first_row.subject,
        notes |-> first_row.notes,
        average_confidence |->
            IF confidences # << >> THEN <<SumSeq(confidences), Len(confidences)>>
            ELSE <<0, 1>>,
        group_confidence |->
            IF first_row.artifact_confidence # None
            THEN first_row.artifact_confidence ELSE 500,
        link_types |-> {link_types[k] : k \in 1..Len(img_ids)},
        confident_link_ratio |-> <<confident_links, Len(img_ids)>>,
        is_research |-> is_research_source(first_row)]

\* line 245: confident_link_ratio > 0.5
mostly_confident(artifact) ==
    2 * artifact.confident_link_ratio[1] > artifact.confident_link_ratio[2]

\* line 251: confident_link_ratio < 0.5
below_confident_ratio(artifact) ==
    2 * artifact.confident_link_ratio[1] < artifact.confident_link_ratio[2]

\* main, lines 225-239
LoadAndGroup ==
    /\ c_pc = "start"
    /\ c_inventory' = load_inventory(inventory, c_args.skip_review)
    /\ c_groups' = group_by_artifact(c_inventory')
    /\ stats' = [total_groups |-> Len(c_groups'),
                 documents |-> 0,
                 research |-> 0,
                 total_pages_culled |-> 0,
                 confident_groups |-> 0,
                 session_default_groups |-> 0]
    /\ c_i' = 1
    /\ c_pc' = "groups"
    /\ UNCHANGED <<ocr_meta, c_args, archive>>
    /\ UNCHANGED <<gvars, rvars, dvars, svars, uvars>>

\* main, lines 241-262: one iteration of the loop over the groups
ConsolidateNextGroup ==
    /\ c_pc = "groups"
    /\ c_i <= Len(c_groups)
    /\ LET artifact == consolidate_group(c_groups[c_i].ag_id,
                                         c_groups[c_i].img_ids, c_inventory)
           skipped == c_args.confident_only /\ below_confident_ratio(artifact)
           tracked == [stats EXCEPT
                         !.confident_groups =
                             IF mostly_confident(artifact) THEN @ + 1 ELSE @,
                         !.session_default_groups =
                             IF artifact.link_types = {"session_default"}
                             THEN @ + 1 ELSE @]
       IN IF skipped
          THEN /\ stats' = tracked
               /\ UNCHANGED archive
          ELSE /\ archive' =
                     IF artifact.is_research
                     THEN [archive EXCEPT !.research = Append(@, artifact)]
                     ELSE [archive EXCEPT !.documents = Append(@, artifact)]
               /\ stats' = [tracked EXCEPT
                     !.research = IF artifact.is_research THEN @ + 1 ELSE @,
                     !.documents = IF artifact.is_research THEN @ ELSE @ + 1,
                     !.total_pages_culled = @ + artifact.duplicate_pages_culled]
    /\ c_i' = c_i + 1
    /\ UNCHANGED <<ocr_meta, c_pc, c_args, c_inventory, c_groups>>
    /\ UNCHANGED <<gvars, rvars, dvars, svars, uvars>>

\* main, lines 264-270: the loop is over
ConsolidationComplete ==
    /\ c_pc = "groups"
    /\ c_i > Len(c_groups)
    /\ c_pc' = "done"
    /\ UNCHANGED <<ocr_meta, c_args, c_inventory, c_groups, c_i, archive, stats>>
    /\ UNCHANGED <<gvars, rvars, dvars, svars, uvars>>

CNext == LoadAndGroup \/ ConsolidateNextGroup \/ ConsolidationComplete

SpecConsolidate == CInitAll /\ [][CNext]_vars

(***************************************************************************)
(* Date Resolver                                                           *)
(***************************************************************************)
\* A text is a sequence of lines and a line (or a title, or the notes) a
\* sequence of tokens separated by blanks.  A token is a word, a number
\* written in digits, or two numbers joined by a hyphen ("1894-1898",
\* "1900-03"); every regular expression of the module is matched token by
\* token.
Word(s) == [w |-> s, n |-> None, m |-> None]
Num(k) == [w |-> "", n |-> k, m |-> None]
Rng(a, b) == [w |-> "-", n |-> a, m |-> b]

\* str.upper() and, for re.IGNORECASE, the lower case of the words of the model
Upper(s) ==
    CASE s = "Annual Meeting" -> "ANNUAL MEETING"
      [] s = "Proceedings" -> "PROCEEDINGS"
      [] s = "Printed" -> "PRINTED"
      [] s = "Published" -> "PUBLISHED"
      [] s = "September" -> "SEPTEMBER"
      [] s = "dated" -> "DATED"
      [] s = "about" -> "ABOUT"
      [] OTHER -> s

Lower(s) ==
    CASE Upper(s) = "PRINTED" -> "printed"
      [] Upper(s) = "PUBLISHED" -> "published"
      [] Upper(s) = "DATED" -> "dated"
      [] Upper(s) = "ABOUT" -> "about"
      [] Upper(s) = "SEPTEMBER" -> "september"
      [] Upper(s) = "JULY" -> "july"
      [] OTHER -> s

\* (1[89]\d{2}|20\d{2}) between word boundaries
IsYear(k) == k \in 1800..2099

\* the year a token starts with / ends with, None if it does not
LeadingYear(tok) == IF tok.w \in {"", "-"} /\ IsYear(tok.n) THEN tok.n ELSE None

TrailingYear(tok) ==
    IF tok.w = "" /\ IsYear(tok.n) THEN tok.n
    ELSE IF tok.w = "-" /\ IsYear(tok.m) THEN tok.m
    ELSE None

\* re.findall(year_pattern, ...) on one token and on a sequence of tokens
YearsInToken(tok) ==
    (IF LeadingYear(tok) # None THEN <<tok.n>> ELSE << >>)
    \o (IF tok.w = "-" /\ IsYear(tok.m) THEN <<tok.m>> ELSE << >>)

RECURSIVE YearsIn(_)
YearsIn(tokens) ==
    IF tokens = << >> THEN << >>
    ELSE YearsInToken(Head(tokens)) \o YearsIn(Tail(tokens))

\* the tokens of a text, line breaks being white space
RECURSIVE Flatten(_)
Flatten(lines) == IF lines = << >> THEN << >> ELSE Head(lines) \o Flatten(Tail(lines))

\* lines[:k] and lines[-k:]
FirstLines(lines, k) == SubSeq(lines, 1, IF Len(lines) < k THEN Len(lines) ELSE k)
LastLines(lines, k) ==
    SubSeq(lines, IF Len(lines) > k THEN Len(lines) - k + 1 ELSE 1, Len(lines))

\* extract_year_from_text
extract_year_from_text(tokens, prefer_early) ==
    LET years == YearsIn(tokens)
    IN IF years = << >> THEN None
       ELSE IF prefer_early THEN MinSeq(years) ELSE MaxSeq(years)

\* extract_date_range: the start year of the first range, None if there is none
extract_date_range(tokens) ==
    LET hits == {i \in 1..Len(tokens) :
                    /\ tokens[i].w = "-"
                    /\ tokens[i].n \in 1800..1999
                    /\ tokens[i].m \in 0..9999}
    IN IF hits = {} THEN None
       ELSE tokens[CHOOSE i \in hits : \A o \in hits : i <= o].n

MonthNames ==
    {"january", "february", "march", "april", "may", "june", "july", "august",
     "september", "october", "november", "december"}

\* parse_letter_date: month name, day of one or two digits, year
parse_letter_date(lines) ==
    LET tokens == Flatten(lines)
        hits == {i \in 1..(Len(tokens) - 2) :
                    /\ Lower(tokens[i].w) \in MonthNames
                    /\ tokens[i + 1].w = ""
                    /\ tokens[i + 1].n \in 0..99
                    /\ LeadingYear(tokens[i + 2]) # None}
    IN IF hits = {} THEN None
       ELSE LeadingYear(tokens[(CHOOSE i \in hits : \A o \in hits : i <= o) + 2])

\* the year of the first of the lines that has one of the marks and a year
first_marked_year(lines, marks) ==
    LET hits == {k \in 1..Len(lines) :
                    /\ \E i \in 1..Len(lines[k]) : Upper(lines[k][i].w) \in marks
                    /\ extract_year_from_text(lines[k], FALSE) # None}
    IN IF hits = {} THEN None
       ELSE extract_year_from_text(
               lines[CHOOSE k \in hits : \A o \in hits : k <= o], FALSE)

\* parse_meeting_date
parse_meeting_date(lines) ==
    first_marked_year(FirstLines(lines, 20), {"ANNUAL MEETING", "HELD AT"})

\* parse_publication_imprint
parse_publication_imprint(lines) ==
    first_marked_year(LastLines(lines, 30),
                      {"PRINTED", "PUBLISHED", "SYRACUSE", "ALBANY", "NEW YORK"})

\* parse_title_page_date
parse_title_page_date(lines, item_type) ==
    IF lines = << >> \/ item_type \notin {"cover_or_title_page", "pamphlet_or_brochure"}
    THEN None
    ELSE IF parse_publication_imprint(lines) # None
    THEN parse_publication_imprint(lines)
    ELSE IF /\ \E i \in 1..Len(Flatten(lines)) :
                  Upper(Flatten(lines)[i].w) \in
                      {"PROCEEDINGS", "MEETING", "ANNUAL MEETING"}
            /\ parse_meeting_date(lines) # None
    THEN parse_meeting_date(lines)
    ELSE extract_year_from_text(Flatten(FirstLines(lines, 15)), FALSE)

\* A slip that leaves notecards out of the modern item types.
is_modern_item_type_display_only(item_type) == item_type \in {"photograph_of_display"}

\* is_modern_item_type
is_modern_item_type(item_type) == item_type \in {"photograph_of_display", "notecard"}

\* A slip that rates the imprint of a document page like its meeting date.
typed_ocr_date_flat(lines, item_type) ==
    IF item_type = "letter"
    THEN LET year == parse_letter_date(lines)
         IN [year |-> year, confidence |-> IF year # None THEN 900 ELSE 0]
    ELSE IF item_type \in {"meeting_minutes", "report"}
    THEN LET year == parse_meeting_date(lines)
         IN [year |-> year, confidence |-> IF year # None THEN 850 ELSE 0]
    ELSE IF item_type \in {"cover_or_title_page", "pamphlet_or_brochure"}
    THEN LET year == parse_title_page_date(lines, item_type)
         IN [year |-> year, confidence |-> IF year # None THEN 800 ELSE 0]
    ELSE IF item_type \in {"document_page", "form", "ledger_or_register"}
    THEN LET year == parse_meeting_date(lines)
         IN IF year # None THEN [year |-> year, confidence |-> 700]
            ELSE LET imprint == parse_publication_imprint(lines)
                 IN [year |-> imprint,
                     confidence |-> IF imprint # None THEN 700 ELSE 0]
    ELSE [year |-> None, confidence |-> 0]

\* lines 188-207: year and confidence (thousandths) by item type
typed_ocr_date(lines, item_type) ==
    IF item_type = "letter"
    THEN LET year == parse_letter_date(lines)
         IN [year |-> year, confidence |-> IF year # None THEN 900 ELSE 0]
    ELSE IF item_type \in {"meeting_minutes", "report"}
    THEN LET year == parse_meeting_date(lines)
         IN [year |-> year, confidence |-> IF year # None THEN 850 ELSE 0]
    ELSE IF item_type \in {"cover_or_title_page", "pamphlet_or_brochure"}
    THEN LET year == parse_title_page_date(lines, item_type)
         IN [year |-> year, confidence |-> IF year # None THEN 800 ELSE 0]
    ELSE IF item_type \in {"document_page", "form", "ledger_or_register"}
    THEN LET year == parse_meeting_date(lines)
         IN IF year # None THEN [year |-> year, confidence |-> 700]
            ELSE LET imprint == parse_publication_imprint(lines)
                 IN [year |-> imprint,
                     confidence |-> IF imprint # None THEN 600 ELSE 0]
    ELSE [year |-> None, confidence |-> 0]

\* parse_ocr_for_document_date
parse_ocr_for_document_date(lines, item_type, item_title) ==
    IF lines = << >> THEN [year |-> None, confidence |-> 0]
    ELSE IF is_modern_item_type(item_type) THEN [year |-> None, confidence |-> 0]
    ELSE LET found == typed_ocr_date(lines, item_type)
         IN IF found.year # None /\ (found.year < 1800 \/ found.year > 2025)
            THEN [year |-> None, confidence |-> 0]
            ELSE found

\* the year after the first occurrence of one of the words, None if there is
\* no such occurrence
year_after_word(tokens, words) ==
    LET hits == {i \in 1..(Len(tokens) - 1) :
                    /\ Lower(tokens[i].w) \in words
                    /\ LeadingYear(tokens[i + 1]) # None}
    IN IF hits = {} THEN None
       ELSE LeadingYear(tokens[(CHOOSE i \in hits : \A o \in hits : i <= o) + 1])

\* lines 227-238: the explicit markers in the order they are tried
explicit_year(tokens) ==
    IF year_after_word(tokens, {"dated"}) # None
    THEN year_after_word(tokens, {"dated"})
    ELSE IF year_after_word(tokens, {"published"}) # None
    THEN year_after_word(tokens, {"published"})
    ELSE IF year_after_word(tokens, {"printed"}) # None
    THEN year_after_word(tokens, {"printed"})
    ELSE IF tokens # << >> THEN TrailingYear(tokens[Len(tokens)])
    ELSE None

\* A slip that takes any bare year without looking for a subject date.
extract_year_from_title_any_year(title, notes) ==
    LET combined == title \o notes
    IN IF explicit_year(combined) # None
       THEN [year |-> explicit_year(combined), confidence |-> 800]
       ELSE IF extract_date_range(combined) # None
       THEN [year |-> extract_date_range(combined), confidence |-> 700]
       ELSE IF extract_year_from_text(combined, FALSE) # None
       THEN [year |-> extract_year_from_text(combined, FALSE), confidence |-> 400]
       ELSE [year |-> None, confidence |-> 0]

\* extract_year_from_title
extract_year_from_title(title, notes) ==
    LET combined == title \o notes
    IN IF explicit_year(combined) # None
       THEN [year |-> explicit_year(combined), confidence |-> 800]
       ELSE IF extract_date_range(combined) # None
       THEN [year |-> extract_date_range(combined), confidence |-> 700]
       ELSE IF year_after_word(combined, {"discussing", "about", "commemorating",
                                          "founded", "established"}) # None
       THEN [year |-> None, confidence |-> 0]
       ELSE IF extract_year_from_text(combined, FALSE) # None
       THEN [year |-> extract_year_from_text(combined, FALSE), confidence |-> 400]
       ELSE [year |-> None, confidence |-> 0]

\* get_best_date, lines 299-320, with the arbitration tried title first
decide_title_first(ocr, title, ocr_confidence) ==
    IF title.year # None /\ title.confidence >= 700
    THEN [year |-> title.year, source |-> "title_explicit",
          confidence |-> title.confidence]
    ELSE IF ocr.year # None /\ ocr.confidence >= 700 /\ ocr_confidence >= 700
    THEN [year |-> ocr.year, source |-> "ocr_text", confidence |-> ocr.confidence]
    ELSE IF ocr.year # None /\ ocr.confidence >= 500
    THEN [year |-> ocr.year,
          source |-> IF ocr.confidence < 700 \/ ocr_confidence < 700
                     THEN "ocr_text_uncertain" ELSE "ocr_text",
          confidence |-> ocr.confidence]
    ELSE IF title.year # None /\ title.confidence >= 400
    THEN [year |-> title.year, source |-> "title_inferred",
          confidence |-> title.confidence]
    ELSE [year |-> None, source |-> "undated", confidence |-> 0]

\* A slip that labels the outcome without a year 'no_date'.
decide_no_date_source(ocr, title, ocr_confidence) ==
    IF ocr.year # None /\ ocr.confidence >= 700 /\ ocr_confidence >= 700
    THEN [year |-> ocr.year, source |-> "ocr_text", confidence |-> ocr.confidence]
    ELSE IF title.year # None /\ title.confidence >= 700
    THEN [year |-> title.year, source |-> "title_explicit",
          confidence |-> title.confidence]
    ELSE IF ocr.year # None /\ ocr.confidence >= 500
    THEN [year |-> ocr.year,
          source |-> IF ocr.confidence < 700 \/ ocr_confidence < 700
                     THEN "ocr_text_uncertain" ELSE "ocr_text",
          confidence |-> ocr.confidence]
    ELSE IF title.year # None /\ title.confidence >= 400
    THEN [year |-> title.year, source |-> "title_inferred",
          confidence |-> title.confidence]
    ELSE [year |-> None, source |-> "no_date", confidence |-> 0]

\* A slip that trusts the heuristic without the confidence of the OCR run.
decide_heuristic_only(ocr, title, ocr_confidence) ==
    IF ocr.year # None /\ ocr.confidence >= 700
    THEN [year |-> ocr.year, source |-> "ocr_text", confidence |-> ocr.confidence]
    ELSE IF title.year # None /\ title.confidence >= 700
    THEN [year |-> title.year, source |-> "title_explicit",
          confidence |-> title.confidence]
    ELSE IF ocr.year # None /\ ocr.confidence >= 500
    THEN [year |-> ocr.year,
          source |-> IF ocr.confidence < 700 \/ ocr_confidence < 700
                     THEN "ocr_text_uncertain" ELSE "ocr_text",
          confidence |-> ocr.confidence]
    ELSE IF title.year # None /\ title.confidence >= 400
    THEN [year |-> title.year, source |-> "title_inferred",
          confidence |-> title.confidence]
    ELSE [year |-> None, source |-> "undated", confidence |-> 0]

\* get_best_date, lines 299-320: the decision logic
decide(ocr, title, ocr_confidence) ==
    IF ocr.year # None /\ ocr.confidence >= 700 /\ ocr_confidence >= 700
    THEN [year |-> ocr.year, source |-> "ocr_text", confidence |-> ocr.confidence]
    ELSE IF title.year # None /\ title.confidence >= 700
    THEN [year |-> title.year, source |-> "title_explicit",
          confidence |-> title.confidence]
    ELSE IF ocr.year # None /\ ocr.confidence >= 500
    THEN [year |-> ocr.year,
          source |-> IF ocr.confidence < 700 \/ ocr_confidence < 700
                     THEN "ocr_text_uncertain" ELSE "ocr_text",
          confidence |-> ocr.confidence]
    ELSE IF title.year # None /\ title.confidence >= 400
    THEN [year |-> title.year, source |-> "title_inferred",
          confidence |-> title.confidence]
    ELSE [year |-> None, source |-> "undated", confidence |-> 0]

\* item types of the labeled inventory, one of them outside every list
ItemTypes ==
    {"letter", "meeting_minutes", "report", "cover_or_title_page",
     "pamphlet_or_brochure", "document_page", "form", "ledger_or_register",
     "photograph_of_display", "notecard", "photograph"}

\* Transcriptions: none; a letter with a dateline; a dateline in 2026; a
\* meeting header with day and year; proceedings with header and imprint;
\* bare years without any mark; a meeting header on line 21; a header and
\* imprint line whose year is 2050; an imprint line alone.
OcrDocuments ==
    {<< >>,
     <<<<Word("September"), Num(19), Num(1941)>>, <<Word("Dear"), Word("Sir")>>>>,
     <<<<Word("September"), Num(19), Num(2026)>>>>,
     <<<<Word("ANNUAL MEETING"), Word("JULY"), Num(2), Num(1889)>>>>,
     <<<<Word("Proceedings")>>,
       <<Num(1855), Word("Annual Meeting"), Num(1889)>>,
       <<Word("SYRACUSE"), Word("Printed"), Num(1881)>>>>,
     <<<<Word("Report"), Num(1799), Num(1855)>>>>,
     [k \in 1..21 |-> IF k = 21 THEN <<Word("HELD AT"), Num(1881)>> ELSE << >>],
     <<<<Word("HELD AT"), Word("ALBANY"), Num(2050)>>>>,
     <<<<Word("ALBANY"), Word("Published"), Num(1855)>>>>}

\* 'confidence' of the OCR metadata, thousandths
OcrConfidences == {0, 699, 700, 900}

Titles ==
    {<< >>,
     <<Word("Letter"), Word("dated"), Num(1881)>>,
     <<Word("Minutes"), Rng(1894, 1898)>>,
     <<Word("Register"), Rng(1900, 3), Word("volume")>>,
     <<Word("Essay"), Word("about"), Num(1845), Word("schools")>>,
     <<Word("School"), Num(1855), Word("building")>>,
     <<Word("Scanned"), Num(2026)>>,
     <<Word("School"), Word("founded"), Num(1845), Word("rebuilt"), Num(1855), Word("hall")>>}

NotesTexts ==
    {<< >>,
     <<Word("Published"), Num(1855)>>,
     <<Word("see"), Word("display")>>}

DInit ==
    /\ d_pc = "start"
    /\ d_row \in [item_type : ItemTypes, item_title : Titles, notes : NotesTexts]
    /\ d_ocr_text \in OcrDocuments
    /\ d_ocr_confidence \in OcrConfidences
    /\ d_ocr_date = << >>
    /\ d_title_date = << >>
    /\ d_result = << >>

DInitAll ==
    /\ GIdle
    /\ RIdle
    /\ CIdle
    /\ DInit
    /\ SIdle
    /\ UIdle

\* get_best_date
GetBestDate ==
    /\ d_pc = "start"
    /\ d_pc' = "done"
    /\ IF is_modern_item_type(d_row.item_type)
       THEN /\ d_result' = [year |-> None,
                            source |-> "undated_modern_documentation",
                            confidence |-> 0]
            /\ UNCHANGED <<d_ocr_date, d_title_date>>
       ELSE /\ d_ocr_date' = parse_ocr_for_document_date(d_ocr_text,
                                  d_row.item_type, d_row.item_title)
            /\ d_title_date' = extract_year_from_title(d_row.item_title, d_row.notes)
            /\ d_result' = decide(d_ocr_date', d_title_date', d_ocr_confidence)
    /\ UNCHANGED <<d_row, d_ocr_text, d_ocr_confidence>>
    /\ UNCHANGED <<gvars, rvars, cvars, svars, uvars>>

DNext == GetBestDate

SpecDates == DInitAll /\ [][DNext]_vars

\* parse_ocr_for_document_date called on its own with the transcription, the
\* item type and the title of the row: the function is public, and a caller
\* other than get_best_date can pass it a modern item type
ParseOcrForDocumentDate ==
    /\ d_pc = "start"
    /\ d_pc' = "parsed"
    /\ d_ocr_date' = parse_ocr_for_document_date(d_ocr_text, d_row.item_type,
                                                 d_row.item_title)
    /\ UNCHANGED <<d_row, d_ocr_text, d_ocr_confidence, d_title_date, d_result>>
    /\ UNCHANGED <<gvars, rvars, cvars, svars, uvars>>

OcrDateNext == ParseOcrForDocumentDate

SpecOcrDate == DInitAll /\ [][OcrDateNext]_vars

(***************************************************************************)
(* Inventory dedupe (dedupe_images_inventory.py)                           *)
(***************************************************************************)
MaxInventoryRows == 3

MaxDedupeRuns == 2

\* csv.DictReader gives None for a cell missing from a short row; the cells
\* are strings, and None is kept apart from every string of the model
absent == "<None>"

\* bool(value) of a csv cell: an absent cell and '' are false
filled(value) == value # absent /\ value # ""

\* prefer.score
score(r) ==
    (IF r.duplicate_of \in {absent, ""} THEN 2 ELSE 0)
    + (IF filled(r.item_type) THEN 2 ELSE 0)
    + (IF filled(r.subject) THEN 1 ELSE 0)
    + (IF filled(r.location_guess) THEN 1 ELSE 0)

\* A slip that lets a later row of the same score win.
prefer_later(a, b) == IF score(a) > score(b) THEN a ELSE b

\* prefer
prefer(a, b) == IF score(a) >= score(b) THEN a ELSE b

\* main, lines 33-36: the key a row is kept under
digest_of(row) ==
    LET digest == IF filled(row.sha256) THEN row.sha256 ELSE ""
    IN IF digest = "" THEN row.relative_path ELSE digest

\* main, lines 31-40: keep_by_digest after the rows were read, as its items in
\* insertion order (an assignment to a key already present keeps its place)
RECURSIVE keep_by_digest(_, _)
keep_by_digest(keep, rows) ==
    IF rows = << >> THEN keep
    ELSE LET row == Head(rows)
             digest == digest_of(row)
             hit == {k \in 1..Len(keep) : keep[k].digest = digest}
         IN keep_by_digest(
                IF hit # {}
                THEN LET k == CHOOSE k \in hit : TRUE
                     IN [keep EXCEPT ![k].row = prefer(keep[k].row, row)]
                ELSE Append(keep, [digest |-> digest, row |-> row]),
                Tail(rows))

\* rows.sort(key=lambda r: r.get('id')): the ids are compared as strings and
\* the sort is stable
RECURSIVE InsertById(_, _)
InsertById(sorted, r) ==
    IF sorted = << >> THEN <<r>>
    ELSE IF ~FmtBefore(r.id, Head(sorted).id)
         THEN <<Head(sorted)>> \o InsertById(Tail(sorted), r)
         ELSE <<r>> \o sorted

RECURSIVE sort_by_id(_)
sort_by_id(rows) ==
    IF rows = << >> THEN << >>
    ELSE InsertById(sort_by_id(SubSeq(rows, 1, Len(rows) - 1)), rows[Len(rows)])

\* csv.DictWriter.writerow followed by csv.DictReader: a cell that was absent
\* from a short row is written, and read again, as ''
written_row(r) == [f \in DOMAIN r |-> IF r[f] = absent THEN "" ELSE r[f]]

\* main: the rows IN_CSV holds after a run over 'rows'
deduped(rows) ==
    LET keep == keep_by_digest(<< >>, rows)
        kept == sort_by_id([k \in 1..Len(keep) |-> keep[k].row])
    IN [k \in 1..Len(kept) |-> written_row(kept[k])]

\* sha256 and relative_path of a row: with and without a digest, two paths
RowKeys ==
    {[sha256 |-> h, relative_path |-> p] :
        h \in {"", "9f2c"}, p \in {"raw/imgs/IMG_0001.jpeg", "raw/imgs/IMG_0002.jpeg"}}

\* the curation cells of a row: fully labeled (score 6); a labeled duplicate
\* (2); a short row that ends before duplicate_of (2); a duplicate with a
\* subject only (1)
Curations ==
    {[duplicate_of |-> "", item_type |-> "letter", subject |-> "schools",
      location_guess |-> "Albany"],
     [duplicate_of |-> "raw/imgs/IMG_0001.jpeg", item_type |-> "letter",
      subject |-> "", location_guess |-> ""],
     [duplicate_of |-> absent, item_type |-> absent, subject |-> absent,
      location_guess |-> absent],
     [duplicate_of |-> "raw/imgs/IMG_0001.jpeg", item_type |-> "",
      subject |-> "schools", location_guess |-> ""]}

\* the numbers of the ids down the file: ascending, descending, or ascending
\* from the second row with the first id last
IdOrders(n) ==
    {[k \in 1..n |-> k], [k \in 1..n |-> n + 1 - k], [k \in 1..n |-> (k % n) + 1]}

UInit ==
    /\ dedupe_runs = 0
    /\ csv_before = << >>
    /\ \E n \in 0..MaxInventoryRows :
         \E keys \in [1..n -> RowKeys], labels \in [1..n -> Curations],
            order \in IdOrders(n) :
            in_csv = [k \in 1..n |->
                         [id |-> Fmt("img_", order[k]),
                          sha256 |-> keys[k].sha256,
                          relative_path |-> keys[k].relative_path,
                          duplicate_of |-> labels[k].duplicate_of,
                          item_type |-> labels[k].item_type,
                          subject |-> labels[k].subject,
                          location_guess |-> labels[k].location_guess]]

UInitAll ==
    /\ GIdle
    /\ RIdle
    /\ CIdle
    /\ DIdle
    /\ SIdle
    /\ UInit

\* main: one run, from reading IN_CSV to replacing it
DedupeInventory ==
    /\ dedupe_runs < MaxDedupeRuns
    /\ csv_before' = in_csv
    /\ in_csv' = deduped(in_csv)
    /\ dedupe_runs' = dedupe_runs + 1
    /\ UNCHANGED <<gvars, rvars, cvars, dvars, svars>>

UNext == DedupeInventory

SpecDedupe == UInitAll /\ [][UNext]_vars

(***************************************************************************)
(* Properties of the Grouper                                               *)
(***************************************************************************)
\* Capture time of the image a row was built from (metadata time, else mtime).
captured_at(row) ==
    LET img == images[row.id[2]]
    IN IF img.dt # None THEN img.dt ELSE img.file_mtime

\* Position of the first scanned row with the digest of row k.
FirstWithDigest(k) ==
    CHOOSE j \in 1..k :
        /\ finalized_rows[j].sha256 = finalized_rows[k].sha256
        /\ \A h \in 1..(j - 1) : finalized_rows[h].sha256 # finalized_rows[k].sha256

\* C1: any two scanned rows with equal content digests carry the same
\* duplicate_group_id, which is never empty (also along a chain of three or
\* more equal digests).
C1_DuplicateGroupInvariant ==
    \A a, b \in 1..Len(finalized_rows) :
        /\ finalized_rows[a].duplicate_group_id # EmptyStr
        /\ (finalized_rows[a].sha256 = finalized_rows[b].sha256)
             => (finalized_rows[a].duplicate_group_id
                    = finalized_rows[b].duplicate_group_id)

\* the whole collection is scanned and three rows share one digest
C1_Witness ==
    /\ g_pc = "done"
    /\ \E a, b, c \in 1..Len(out_csv) :
          /\ a < b /\ b < c
          /\ out_csv[a].sha256 = out_csv[b].sha256
          /\ out_csv[b].sha256 = out_csv[c].sha256
          /\ out_csv[a].duplicate_group_id = out_csv[c].duplicate_group_id

\* C2: the rows are scanned in ascending capture time, ties in input order;
\* the first row opens session 1, and a later row opens the next session
\* exactly when its gap from the row scanned just before it is more than 90
\* seconds, and otherwise gets the session of that row.
C2_SessionBoundaries ==
    \A k \in 1..Len(finalized_rows) :
        LET r == finalized_rows[k]
        IN IF k = 1 THEN r.session_group_id = Fmt("S", 1)
           ELSE LET p == finalized_rows[k - 1]
                    gap == captured_at(r) - captured_at(p)
                IN /\ gap >= 0
                   /\ (gap = 0 => p.id[2] < r.id[2])
                   /\ IF gap > 90
                      THEN r.session_group_id = Fmt("S", p.session_group_id[2] + 1)
                      ELSE r.session_group_id = p.session_group_id

\* a finished scan with a gap of exactly 90 s inside a session, a gap of more
\* than 90 s at a session boundary, and a tie in capture time
C2_Witness ==
    /\ g_pc = "done"
    /\ \E k \in 2..Len(out_csv) :
          /\ captured_at(out_csv[k]) - captured_at(out_csv[k - 1]) = 90
          /\ out_csv[k].session_group_id = out_csv[k - 1].session_group_id
    /\ \E k \in 2..Len(out_csv) :
          /\ captured_at(out_csv[k]) - captured_at(out_csv[k - 1]) > 90
          /\ out_csv[k].session_group_id # out_csv[k - 1].session_group_id

\* C10 (as claimed): a row whose digest was seen earlier in the scan has
\* duplicate_of equal to the id of the first row with that digest; the first
\* row with a digest has an empty duplicate_of.
C10_DuplicateOfIsFirstId ==
    \A k \in 1..Len(finalized_rows) :
        LET f == FirstWithDigest(k)
        IN finalized_rows[k].duplicate_of =
              IF f < k THEN finalized_rows[f].id ELSE EmptyStr

\* C10 (amended): a row whose digest was seen earlier in the scan has
\* duplicate_of equal to the relative_path of the first row with that digest;
\* the first row with a digest has an empty duplicate_of.
C10_DuplicateOfIsFirstPath ==
    \A k \in 1..Len(finalized_rows) :
        LET f == FirstWithDigest(k)
        IN finalized_rows[k].duplicate_of =
              IF f < k THEN finalized_rows[f].relative_path ELSE EmptyStr

\* a finished scan in which a third row with the same digest points at the
\* first one, not at the second
C10_Witness ==
    /\ g_pc = "done"
    /\ \E a, b, c \in 1..Len(out_csv) :
          /\ a < b /\ b < c
          /\ out_csv[a].sha256 = out_csv[b].sha256
          /\ out_csv[b].sha256 = out_csv[c].sha256
          /\ out_csv[a].duplicate_of = EmptyStr
          /\ out_csv[c].duplicate_of = out_csv[a].relative_path

\* C13: in the rows scanned so far and in the CSV written, the session_index
\* of a row is the number of rows of its session up to and including it in
\* scan order, so the indices of a session of n rows are 1, 2, ..., n with no
\* gap and no repeat, and the scan visits the rows in capture-time order.
C13_SessionIndexCountsRowsOfSession ==
    /\ \A k \in 1..Len(finalized_rows) :
          /\ finalized_rows[k].session_index =
                Cardinality({h \in 1..k : finalized_rows[h].session_group_id
                                            = finalized_rows[k].session_group_id})
          /\ \A h \in 1..k : captured_at(finalized_rows[h]) <= captured_at(finalized_rows[k])
    /\ g_pc = "done" => out_csv = finalized_rows

\* the CSV holds a session of two rows followed by a second session
C13_Witness ==
    /\ g_pc = "done"
    /\ Len(out_csv) = 3
    /\ out_csv[1].session_group_id = out_csv[2].session_group_id
    /\ out_csv[2].session_index = 2
    /\ out_csv[3].session_group_id # out_csv[1].session_group_id
    /\ out_csv[3].session_index = 1

\* C14: the CSV the Grouper writes has exactly one row for every image found,
\* exact duplicates and images without a metadata timestamp included; every
\* row carries one session id S<n>, one duplicate group id D<m>, and an
\* artifact_group_id equal to its session id.
C14_OneRowPerImageInOneSession ==
    g_pc = "done" =>
        /\ Len(out_csv) = Len(images)
        /\ \A idx \in 1..Len(images) :
              Cardinality({k \in 1..Len(out_csv) : out_csv[k].id = Fmt("img_", idx)}) = 1
        /\ \A k \in 1..Len(out_csv) :
              /\ out_csv[k].sha256 = images[out_csv[k].id[2]].sha256
              /\ \E n \in 1..Len(images) : out_csv[k].session_group_id = Fmt("S", n)
              /\ \E m \in 1..Len(images) : out_csv[k].duplicate_group_id = Fmt("D", m)
              /\ out_csv[k].artifact_group_id = out_csv[k].session_group_id

\* the CSV holds an exact duplicate of an earlier row and a row of an image
\* that has no metadata timestamp
C14_Witness ==
    /\ g_pc = "done"
    /\ Len(out_csv) = 3
    /\ \E k \in 1..3 : out_csv[k].duplicate_of # EmptyStr
    /\ \E k \in 1..3 : images[out_csv[k].id[2]].dt = None

(***************************************************************************)
(* Properties of the Clusterer                                             *)
(***************************************************************************)
artifact_group_ids(rows) == [k \in 1..Len(rows) |-> rows[k].artifact_group_id]

\* the components the Clusterer finds for the current inventory and texts
Components == proposed_groups(inventory, ocr_text)

MemberSet(g) == {g.member_ids[m] : m \in 1..Len(g.member_ids)}

\* similarity of the transcriptions of two images
PairSimilarity(texts, id1, id2) == text_similarity(texts[id1], texts[id2])

\* C6: a run of the Clusterer on the output of a previous run, with the same
\* transcriptions, leaves the artifact_group_id of every row as it was.
C6_SecondRunKeepsGroups ==
    [][(refine_runs >= 1 /\ refine_runs' = refine_runs + 1)
          => artifact_group_ids(inventory') = artifact_group_ids(inventory)]_vars

\* the Clusterer has run twice on the same transcriptions, and the inventory
\* holds a content group next to a row left in its session group
C6_Witness ==
    /\ refine_runs = 2
    /\ \E k \in 1..Len(inventory) : inventory[k].artifact_group_id[1] = "CG"
    /\ \E k \in 1..Len(inventory) : inventory[k].artifact_group_id[1] = "S"

\* C7 (as claimed): when a transcription is rewritten so that a component
\* keeps its members, the similarity of its least similar pair of members
\* drops and every other pair of members keeps its similarity, the
\* group_confidence of the component does not grow.
C7_LowerMinimumNeverRaisesConfidence ==
    [][LET before == proposed_groups(inventory, ocr_text)
           after == proposed_groups(inventory', ocr_text')
       IN \A g \in 1..Len(before) : \A h \in 1..Len(after) :
             LET M == MemberSet(before[g])
             IN (/\ MemberSet(after[h]) = M
                 /\ \E a, b \in M :
                       /\ a # b
                       /\ PairSimilarity(ocr_text', a, b)
                            < PairSimilarity(ocr_text, a, b)
                       /\ \A c, d \in M :
                             c # d => PairSimilarity(ocr_text, a, b)
                                        <= PairSimilarity(ocr_text, c, d)
                       /\ \A c, d \in M :
                             (c # d /\ {c, d} # {a, b})
                             => PairSimilarity(ocr_text', c, d)
                                  = PairSimilarity(ocr_text, c, d))
                => after[h].confidence <= before[g].confidence]_vars

\* C8 (as claimed): after a run of the Clusterer every row of a multi-member
\* component has needs_review = 'True' exactly when the confidence of the
\* component is below 0.6 or the component has more than 5 members.
C8_NeedsReviewIffFlagged ==
    refine_runs >= 1 =>
        \A g \in 1..Len(Components) : \A k \in 1..Len(inventory) :
            inventory[k].id \in MemberSet(Components[g]) =>
                ((inventory[k].needs_review = "True")
                   <=> (\/ Components[g].confidence < 600
                        \/ Len(Components[g].member_ids) > 5))

\* C9 (as claimed): after a run of the Clusterer every member of a flagged
\* component has an entry in the review queue with the proposed group, the
\* confidence and the reason (low_confidence below 0.6, large_group
\* otherwise), and the queue has no entry for an image that is not a member
\* of a flagged component.
C9_ReviewQueueListsExactlyFlagged ==
    refine_runs >= 1 =>
        /\ \A g \in 1..Len(Components) :
              (\/ Components[g].confidence < 600
               \/ Len(Components[g].member_ids) > 5)
              => \A id \in MemberSet(Components[g]) :
                    \E q \in 1..Len(review_queue) :
                        /\ review_queue[q].id = id
                        /\ review_queue[q].proposed_group = Components[g].group_id
                        /\ review_queue[q].confidence = Components[g].confidence
                        /\ review_queue[q].reason =
                              IF Components[g].confidence < 600
                              THEN "low_confidence" ELSE "large_group"
        /\ \A q \in 1..Len(review_queue) :
              \E g \in 1..Len(Components) :
                  /\ review_queue[q].id \in MemberSet(Components[g])
                  /\ (\/ Components[g].confidence < 600
                      \/ Len(Components[g].member_ids) > 5)

\* the rows with the four link fields as the Grouper and the labelling leave
\* them, everything else (id, session) as it is
unlinked_rows(rows) ==
    [k \in 1..Len(rows) |->
        [rows[k] EXCEPT !.artifact_group_id = rows[k].session_group_id,
                        !.artifact_link_type = "session_default",
                        !.artifact_confidence = None,
                        !.needs_review = "False"]]

\* the inventory a run leaves when started from rows and transcriptions
refined_rows(rows, texts) ==
    [k \in 1..Len(rows) |-> update_row(rows[k], proposed_groups(rows, texts))]

\* C15 (as claimed): the rows a run of the Clusterer leaves are those a run
\* leaves that starts from the same sessions and transcriptions with the four
\* link fields of every row at their initial values; what an earlier run
\* wrote into artifact_group_id, link type, confidence and needs_review makes
\* no difference.
C15_RunResultIndependentOfLinkFields ==
    [][refine_runs' = refine_runs + 1
          => inventory' = refined_rows(unlinked_rows(inventory), ocr_text)]_vars

\* the image has no transcription, or one of whitespace only
textless(texts, id) == texts[id] \in {"", BlankText}

\* C18: in a run of the Clusterer a record without OCR text (no
\* transcription, or whitespace only) is in no pair of the similarities
\* computed and in no component of more than one member; the run leaves its
\* artifact_group_id as it was, and the inventory written has the same
\* records in the same order.
C18_TextlessRecordLeftAlone ==
    [][refine_runs' = refine_runs + 1 =>
         /\ Len(inventory') = Len(inventory)
         /\ \A k \in 1..Len(inventory) :
               /\ inventory'[k].id = inventory[k].id
               /\ textless(ocr_text, inventory[k].id) =>
                     /\ \A p \in 1..Len(all_similarities(inventory, ocr_text)) :
                           inventory[k].id \notin
                               {all_similarities(inventory, ocr_text)[p][1],
                                all_similarities(inventory, ocr_text)[p][2]}
                     /\ \A g \in 1..Len(Components) :
                           inventory[k].id \notin MemberSet(Components[g])
                     /\ inventory'[k].artifact_group_id
                           = inventory[k].artifact_group_id]_vars

\* after a run, a record without transcription is still in its session
\* group while two other records of its session are in a content group
C18_Witness ==
    /\ refine_runs = 1
    /\ \E k \in 1..Len(inventory) :
          /\ ocr_text[inventory[k].id] = ""
          /\ inventory[k].artifact_group_id = inventory[k].session_group_id
          /\ \E h \in 1..Len(inventory) :
                /\ inventory[h].session_group_id = inventory[k].session_group_id
                /\ inventory[h].artifact_group_id[1] = "CG"

\* C20 (as claimed): a run of the Clusterer leaves every record that is in no
\* component of more than one member with link type session_default and
\* link confidence 0.5, and with the artifact_group_id it had before the run.
C20_UngroupedRecordsAreSessionDefault ==
    [][refine_runs' = refine_runs + 1 =>
         \A k \in 1..Len(inventory) :
             (\A g \in 1..Len(Components) :
                  inventory[k].id \notin MemberSet(Components[g]))
             => /\ inventory'[k].artifact_link_type = "session_default"
                /\ inventory'[k].artifact_confidence = 500
                /\ inventory'[k].artifact_group_id
                      = inventory[k].artifact_group_id]_vars

\* the similarities of all pairs of members of a component, noise included
all_pair_similarities(texts, member_ids) ==
    LET ps == id_pairs(Len(member_ids), 1, 2)
    IN [k \in 1..Len(ps) |->
           PairSimilarity(texts, member_ids[ps[k][1]], member_ids[ps[k][2]])]

\* C21 (as claimed): after a run of the Clusterer, the confidence written to
\* the rows of every component of more than one member is, to within 0.001,
\* 0.7 x mean + 0.3 x minimum of the similarities of all pairs of its
\* members, pairs at or below 0.15 included.
C21_ConfidenceOverAllMemberPairs ==
    refine_runs >= 1 =>
        \A g \in 1..Len(Components) :
            LET sims == all_pair_similarities(ocr_text, Components[g].member_ids)
                n == Len(sims)
                num == 7 * SumSeq(sims) + 3 * n * MinSeq(sims)
            IN \A id \in MemberSet(Components[g]) :
                  LET written == row_by_id(inventory, id).artifact_confidence
                  IN /\ written * 10 * n - num <= 10 * n
                     /\ num - written * 10 * n <= 10 * n

\* C24: in a run of the Clusterer the members of every component belong to
\* one session, and two records of different sessions that the run puts
\* into components leave the run with different artifact_group_ids.
C24_ComponentsStayInsideSession ==
    [][refine_runs' = refine_runs + 1 =>
         /\ \A g \in 1..Len(Components) :
               \A a, b \in MemberSet(Components[g]) :
                   row_by_id(inventory, a).session_group_id
                     = row_by_id(inventory, b).session_group_id
         /\ \A k, h \in 1..Len(inventory) :
               (/\ inventory[k].session_group_id # inventory[h].session_group_id
                /\ \E g \in 1..Len(Components) :
                      inventory[k].id \in MemberSet(Components[g])
                /\ \E g \in 1..Len(Components) :
                      inventory[h].id \in MemberSet(Components[g]))
               => inventory'[k].artifact_group_id # inventory'[h].artifact_group_id]_vars

\* after a run, a record of a content group and a record of another session
\* whose transcription is as similar as 0.40 or more are in different groups
C24_Witness ==
    /\ refine_runs = 1
    /\ \E k, h \in 1..Len(inventory) :
          /\ inventory[k].session_group_id # inventory[h].session_group_id
          /\ inventory[k].artifact_group_id[1] = "CG"
          /\ PairSimilarity(ocr_text, inventory[k].id, inventory[h].id) >= 400
          /\ inventory[h].artifact_group_id = inventory[h].session_group_id

(***************************************************************************)
(* Properties of the Consolidator                                          *)
(***************************************************************************)
\* the member texts that merged_text is put together from
kept_texts(merged_text) == SelectSeq(merged_text, LAMBDA piece : piece # PAGE_BREAK)

\* C3 (as claimed): no artifact written to the archive has two member texts
\* in its merged_text whose similarity is 0.85 or more.
C3_NoSimilarTextsBothKept ==
    \A part \in {"documents", "research"} :
        \A a \in 1..Len(archive[part]) :
            LET kept == kept_texts(archive[part][a].merged_text)
            IN \A p, q \in 1..Len(kept) :
                  p # q => consolidate_text_similarity(kept[p], kept[q]) < 850

\* texts and metadata confidences of the members of group g, in member order
group_texts(g) == [k \in 1..Len(c_groups[g].img_ids) |-> ocr_text[c_groups[g].img_ids[k]]]
group_metas(g) == [k \in 1..Len(c_groups[g].img_ids) |-> ocr_meta[c_groups[g].img_ids[k]]]

\* the kept entries (unique_indices) once the first i members of group g have
\* been through the culling loop
kept_after(g, i) ==
    cull_duplicates(SubSeq(group_texts(g), 1, i), SubSeq(group_metas(g), 1, i), 1, << >>)

\* the place among the kept entries of the first one that member i of group g
\* is a duplicate of (similarity above 0.85), 0 if there is none
duplicate_slot(g, i) ==
    LET kept == kept_after(g, i - 1)
        dups == {h \in 1..Len(kept) :
                   consolidate_text_similarity(group_texts(g)[i],
                                               group_texts(g)[kept[h]]) > 850}
    IN IF dups = {} THEN 0 ELSE CHOOSE h \in dups : \A o \in dups : h <= o

\* confidence ci is strictly higher than cj, a missing one counting as 0
strictly_higher(ci, cj) ==
    /\ ci # None
    /\ IF cj = None THEN ci > 0 ELSE ci > cj

\* C12: in every consolidated group, when a member's text is a duplicate of a
\* text kept so far, the culling step leaves every other kept entry alone and
\* keeps, of the two, the member if its OCR confidence is strictly higher and
\* the earlier (already kept) one otherwise, that is when the confidences are
\* equal or missing or the member's is lower.
C12_DuplicateKeepsHigherConfidence ==
    \A g \in 1..Len(c_groups) :
        g < c_i =>
            \A i \in 1..Len(c_groups[g].img_ids) :
                LET slot == duplicate_slot(g, i)
                    before == kept_after(g, i - 1)
                    after == kept_after(g, i)
                IN slot # 0 =>
                     /\ Len(after) = Len(before)
                     /\ \A h \in 1..Len(before) : h # slot => after[h] = before[h]
                     /\ after[slot] =
                           IF strictly_higher(group_metas(g)[i],
                                              group_metas(g)[before[slot]])
                           THEN i ELSE before[slot]

\* a consolidated group in which one duplicate replaced the kept text, having
\* the higher confidence, and another with an equal confidence was discarded
C12_Witness ==
    \E g \in 1..Len(c_groups) :
        /\ g < c_i
        /\ \E i, k \in 1..Len(c_groups[g].img_ids) :
              /\ duplicate_slot(g, i) # 0
              /\ kept_after(g, i)[duplicate_slot(g, i)] = i
              /\ duplicate_slot(g, k) # 0
              /\ group_metas(g)[k]
                    = group_metas(g)[kept_after(g, k - 1)[duplicate_slot(g, k)]]
              /\ kept_after(g, k)[duplicate_slot(g, k)] # k
        /\ \E part \in {"documents", "research"} :
              \E a \in 1..Len(archive[part]) :
                 /\ archive[part][a].artifact_group_id = c_groups[g].ag_id
                 /\ archive[part][a].duplicate_pages_culled = 2

\* no member of group g has a transcription other than whitespace
no_text_group(g) ==
    \A k \in 1..Len(group_texts(g)) : group_texts(g)[k] \in {"", BlankText}

\* the artifacts written to either partition for group g
written_for(g) ==
    {<<part, a>> \in {"documents", "research"} \X (1..MaxArtifactRows) :
        /\ a <= Len(archive[part])
        /\ archive[part][a].artifact_group_id = c_groups[g].ag_id}

\* share of confidently linked members of group g, as <<count, size>>
confident_share(g) ==
    <<Cardinality({k \in 1..Len(c_groups[g].img_ids) :
          row_by_id(c_inventory, c_groups[g].img_ids[k]).artifact_link_type
              \in CONFIDENT_LINK_TYPES}),
      Len(c_groups[g].img_ids)>>

\* C16 (as claimed): every consolidated group none of whose members has a
\* non-blank transcription is written to the archive, with an empty
\* merged_text and unique_pages = 0; no text kept in any written artifact is
\* blank.
C16_NoTextGroupStillWritten ==
    /\ \A g \in 1..Len(c_groups) :
          (g < c_i /\ no_text_group(g)) =>
              /\ Cardinality(written_for(g)) = 1
              /\ \A w \in written_for(g) :
                    /\ archive[w[1]][w[2]].merged_text = << >>
                    /\ archive[w[1]][w[2]].unique_pages = 0
    /\ \A part \in {"documents", "research"} : \A a \in 1..Len(archive[part]) :
          LET kept == kept_texts(archive[part][a].merged_text)
          IN /\ Len(kept) = archive[part][a].unique_pages
             /\ \A p \in 1..Len(kept) : kept[p] \notin {"", BlankText}

\* C16 (amended): a consolidated group none of whose members has a non-blank
\* transcription is written to the archive, with an empty merged_text and
\* unique_pages = 0, unless confident-only consolidation was requested and
\* fewer than half of its members are confidently linked, in which case it
\* is written to neither partition; no text kept in any written artifact is
\* blank.
C16_NoTextGroupWrittenUnlessFiltered ==
    /\ \A g \in 1..Len(c_groups) :
          (g < c_i /\ no_text_group(g)) =>
              IF c_args.confident_only
                 /\ 2 * confident_share(g)[1] < confident_share(g)[2]
              THEN written_for(g) = {}
              ELSE /\ Cardinality(written_for(g)) = 1
                   /\ \A w \in written_for(g) :
                         /\ archive[w[1]][w[2]].merged_text = << >>
                         /\ archive[w[1]][w[2]].unique_pages = 0
                         /\ archive[w[1]][w[2]].source_images = c_groups[g].img_ids
    /\ \A part \in {"documents", "research"} : \A a \in 1..Len(archive[part]) :
          LET kept == kept_texts(archive[part][a].merged_text)
          IN /\ Len(kept) = archive[part][a].unique_pages
             /\ \A p \in 1..Len(kept) : kept[p] \notin {"", BlankText}

\* a group of two images, one without transcription and one with a
\* whitespace-only transcription, has been written with nothing merged
C16_Witness ==
    \E g \in 1..Len(c_groups) :
        /\ g < c_i
        /\ Len(c_groups[g].img_ids) >= 2
        /\ {group_texts(g)[k] : k \in 1..Len(group_texts(g))} = {"", BlankText}
        /\ \E w \in written_for(g) :
              /\ archive[w[1]][w[2]].merged_text = << >>
              /\ archive[w[1]][w[2]].unique_pages = 0

\* C19 (as claimed): when confident-only consolidation is requested, every
\* consolidated group whose confident_link_ratio is 0.5 or less is written to
\* neither partition, and every group whose ratio is above 0.5 is written.
C19_HalfConfidentGroupExcluded ==
    c_args.confident_only =>
        \A g \in 1..Len(c_groups) :
            g < c_i =>
                IF 2 * confident_share(g)[1] <= confident_share(g)[2]
                THEN written_for(g) = {}
                ELSE Cardinality(written_for(g)) = 1

\* the member positions of S in ascending order
ascending(S) ==
    CHOOSE f \in [1..Cardinality(S) -> S] :
        \A p, q \in 1..Cardinality(S) : p < q => f[p] < f[q]

\* C23 (as claimed): the merged_text of every written artifact holds the
\* texts of the surviving members in ascending member position, also when a
\* survivor took the place of an earlier duplicate; between two texts stands
\* the page-break marker, and a single survivor is the whole merged_text.
C23_MergedTextInMemberOrder ==
    \A g \in 1..Len(c_groups) :
        g < c_i =>
            \A w \in written_for(g) :
                LET merged == archive[w[1]][w[2]].merged_text
                    survivors == {kept_after(g, Len(c_groups[g].img_ids))[h] :
                                    h \in 1..Len(kept_after(g, Len(c_groups[g].img_ids)))}
                    order == ascending(survivors)
                    n == Cardinality(survivors)
                IN /\ Len(merged) = IF n = 0 THEN 0 ELSE 2 * n - 1
                   /\ \A p \in 1..n : merged[2 * p - 1] = group_texts(g)[order[p]]
                   /\ \A p \in 1..(n - 1) : merged[2 * p] = PAGE_BREAK

(***************************************************************************)
(* Properties of the Date Resolver                                         *)
(***************************************************************************)
\* C4 (as claimed): the year returned by get_best_date is none or lies in
\* [1800, 2025].
C4_YearInArchiveRange ==
    d_pc = "done" => (d_result.year = None \/ d_result.year \in 1800..2025)

\* C5: for a non-modern item get_best_date returns the outcome of the first
\* rule that matches the OCR-heuristic result, the OCR-pipeline confidence and
\* the title/notes result: (1) OCR year with both confidences >= 0.7 gives
\* 'ocr_text'; (2) title year with confidence >= 0.7 gives 'title_explicit';
\* (3) OCR year with heuristic confidence >= 0.5 gives an OCR source; (4)
\* title year with confidence >= 0.4 gives 'title_inferred'; (5) otherwise
\* undated.  A letter whose dateline year the OCR heuristic found, with
\* pipeline confidence >= 0.7, gets (year, 'ocr_text', 0.9) whatever the
\* title and the notes are.
C5_ArbitrationOrder ==
    (d_pc = "done" /\ ~is_modern_item_type(d_row.item_type)) =>
        LET ocr == d_ocr_date
            title == d_title_date
            rule1 == ocr.year # None /\ ocr.confidence >= 700
                     /\ d_ocr_confidence >= 700
            rule2 == title.year # None /\ title.confidence >= 700
            rule3 == ocr.year # None /\ ocr.confidence >= 500
            rule4 == title.year # None /\ title.confidence >= 400
        IN /\ rule1 =>
                d_result = [year |-> ocr.year, source |-> "ocr_text",
                            confidence |-> ocr.confidence]
           /\ (~rule1 /\ rule2) =>
                d_result = [year |-> title.year, source |-> "title_explicit",
                            confidence |-> title.confidence]
           /\ (~rule1 /\ ~rule2 /\ rule3) =>
                /\ d_result.year = ocr.year
                /\ d_result.source \in {"ocr_text", "ocr_text_uncertain"}
                /\ d_result.confidence = ocr.confidence
           /\ (~rule1 /\ ~rule2 /\ ~rule3 /\ rule4) =>
                d_result = [year |-> title.year, source |-> "title_inferred",
                            confidence |-> title.confidence]
           /\ (~rule1 /\ ~rule2 /\ ~rule3 /\ ~rule4) =>
                d_result = [year |-> None, source |-> "undated", confidence |-> 0]
           /\ (/\ d_row.item_type = "letter"
               /\ ocr.year # None
               /\ d_ocr_confidence >= 700) =>
                d_result = [year |-> parse_letter_date(d_ocr_text),
                            source |-> "ocr_text", confidence |-> 900]

\* a letter with the dateline "September 19 1941", pipeline confidence 0.7 and
\* a title that gives another year explicitly has been dated 1941 from the
\* OCR text
C5_Witness ==
    /\ d_pc = "done"
    /\ d_row.item_type = "letter"
    /\ d_ocr_confidence = 700
    /\ parse_letter_date(d_ocr_text) = 1941
    /\ d_title_date = [year |-> 1881, confidence |-> 800]
    /\ d_result = [year |-> 1941, source |-> "ocr_text", confidence |-> 900]

\* C17: for an item whose item_type is photograph_of_display or notecard,
\* get_best_date returns no year and confidence 0.0, whatever the OCR text,
\* the OCR confidence, the title and the notes are.
C17_ModernItemsAreUndated ==
    (d_pc = "done" /\ d_row.item_type \in {"photograph_of_display", "notecard"})
        => /\ d_result.year = None
           /\ d_result.confidence = 0

\* a notecard whose transcription has a dateline year, read with confidence
\* 0.9, and whose title gives a year explicitly has been left undated
C17_Witness ==
    /\ d_pc = "done"
    /\ d_row.item_type = "notecard"
    /\ d_ocr_confidence = 900
    /\ parse_letter_date(d_ocr_text) = 1941
    /\ extract_year_from_title(d_row.item_title, d_row.notes)
          = [year |-> 1881, confidence |-> 800]
    /\ d_result.year = None

\* the transcription mentions PROCEEDINGS or MEETING, in any case of letters
mentions_meeting(lines) ==
    \E i \in 1..Len(Flatten(lines)) :
        Upper(Flatten(lines)[i].w) \in {"PROCEEDINGS", "MEETING", "ANNUAL MEETING"}

\* C25 (as claimed): for a cover_or_title_page or pamphlet_or_brochure with
\* a transcription, the OCR heuristic returns the year of the first of
\* these that finds one: the imprint search, the meeting-date search (tried
\* only when the text mentions PROCEEDINGS or MEETING), the latest year of
\* the first 15 lines; with a year in 1800..2025 the confidence is 0.8 when
\* the imprint search gave it and 0.85 when the meeting-date search gave it.
C25_TitlePageStrategiesAndConfidence ==
    (/\ d_pc = "done"
     /\ d_row.item_type \in {"cover_or_title_page", "pamphlet_or_brochure"}
     /\ d_ocr_text # << >>)
    => LET imprint == parse_publication_imprint(d_ocr_text)
           meeting == IF mentions_meeting(d_ocr_text)
                      THEN parse_meeting_date(d_ocr_text) ELSE None
           latest == extract_year_from_text(Flatten(FirstLines(d_ocr_text, 15)), FALSE)
           year == IF imprint # None THEN imprint
                   ELSE IF meeting # None THEN meeting ELSE latest
       IN IF year = None \/ year \notin 1800..2025
          THEN d_ocr_date = [year |-> None, confidence |-> 0]
          ELSE /\ d_ocr_date.year = year
               /\ imprint # None => d_ocr_date.confidence = 800
               /\ (imprint = None /\ meeting # None) => d_ocr_date.confidence = 850

\* C26 (as claimed): when get_best_date returns no year its source is
\* 'undated' and its confidence 0.0; when it returns a year its confidence is
\* above 0.
C26_NoYearMeansUndated ==
    d_pc = "done" =>
        IF d_result.year = None
        THEN d_result.source = "undated" /\ d_result.confidence = 0
        ELSE d_result.confidence > 0

\* C26 (amended): when get_best_date returns no year its confidence is 0.0
\* and its source is 'undated_modern_documentation' for the item types
\* photograph_of_display and notecard and 'undated' for every other item
\* type; when it returns a year its confidence is above 0.
C26_NoYearMeansUndatedOrModern ==
    d_pc = "done" =>
        IF d_result.year = None
        THEN /\ d_result.confidence = 0
             /\ d_result.source =
                   IF d_row.item_type \in {"photograph_of_display", "notecard"}
                   THEN "undated_modern_documentation" ELSE "undated"
        ELSE d_result.confidence > 0

\* a letter whose dateline year 2026 is rejected and whose title and notes
\* give no year has been returned undated
C26_Witness ==
    /\ d_pc = "done"
    /\ d_row.item_type = "letter"
    /\ parse_letter_date(d_ocr_text) = 2026
    /\ d_title_date = [year |-> None, confidence |-> 0]
    /\ d_result = [year |-> None, source |-> "undated", confidence |-> 0]

\* what a strategy's year becomes: none outside 1800..2025
rated(year, confidence) ==
    IF year # None /\ year \in 1800..2025
    THEN [year |-> year, confidence |-> confidence]
    ELSE [year |-> None, confidence |-> 0]

\* C27 (as claimed): parse_ocr_for_document_date returns a year exactly when
\* its confidence is not zero; for empty text it returns (none, 0.0); a
\* letter's dateline year comes with 0.9, the meeting date of meeting_minutes
\* or a report with 0.85, and for document_page, form and ledger_or_register
\* the meeting date with 0.7 or, when there is none, the imprint year with
\* 0.6; every item type other than these six gets (none, 0.0).
C27_OnlyListedTypesDated ==
    d_pc = "parsed"
    => /\ (d_ocr_date.year # None) <=> (d_ocr_date.confidence # 0)
       /\ d_ocr_text = << >> => d_ocr_date = [year |-> None, confidence |-> 0]
       /\ (d_ocr_text # << >> /\ d_row.item_type = "letter")
             => d_ocr_date = rated(parse_letter_date(d_ocr_text), 900)
       /\ (d_ocr_text # << >> /\ d_row.item_type \in {"meeting_minutes", "report"})
             => d_ocr_date = rated(parse_meeting_date(d_ocr_text), 850)
       /\ (/\ d_ocr_text # << >>
           /\ d_row.item_type \in {"document_page", "form", "ledger_or_register"})
             => d_ocr_date =
                  IF parse_meeting_date(d_ocr_text) # None
                  THEN rated(parse_meeting_date(d_ocr_text), 700)
                  ELSE rated(parse_publication_imprint(d_ocr_text), 600)
       /\ d_row.item_type \notin
             {"letter", "meeting_minutes", "report",
              "document_page", "form", "ledger_or_register"}
             => d_ocr_date = [year |-> None, confidence |-> 0]

\* C27 (amended): as claimed, with one more listed item type: for
\* cover_or_title_page and pamphlet_or_brochure the year of the title-page
\* search comes with 0.8.  Every item type other than these eight, the modern
\* item types among them, gets (none, 0.0).
C27_ConfidenceFixedByTypeAndStrategy ==
    d_pc = "parsed"
    => /\ (d_ocr_date.year # None) <=> (d_ocr_date.confidence # 0)
       /\ d_ocr_text = << >> => d_ocr_date = [year |-> None, confidence |-> 0]
       /\ (d_ocr_text # << >> /\ d_row.item_type = "letter")
             => d_ocr_date = rated(parse_letter_date(d_ocr_text), 900)
       /\ (d_ocr_text # << >> /\ d_row.item_type \in {"meeting_minutes", "report"})
             => d_ocr_date = rated(parse_meeting_date(d_ocr_text), 850)
       /\ (/\ d_ocr_text # << >>
           /\ d_row.item_type \in {"cover_or_title_page", "pamphlet_or_brochure"})
             => d_ocr_date =
                  rated(parse_title_page_date(d_ocr_text, d_row.item_type), 800)
       /\ (/\ d_ocr_text # << >>
           /\ d_row.item_type \in {"document_page", "form", "ledger_or_register"})
             => d_ocr_date =
                  IF parse_meeting_date(d_ocr_text) # None
                  THEN rated(parse_meeting_date(d_ocr_text), 700)
                  ELSE rated(parse_publication_imprint(d_ocr_text), 600)
       /\ d_row.item_type \notin
             {"letter", "meeting_minutes", "report", "cover_or_title_page",
              "pamphlet_or_brochure", "document_page", "form", "ledger_or_register"}
             => d_ocr_date = [year |-> None, confidence |-> 0]

\* the function has dated a cover page from its imprint line with confidence
\* 0.8
C27_Witness ==
    /\ d_pc = "parsed"
    /\ d_row.item_type = "cover_or_title_page"
    /\ parse_publication_imprint(d_ocr_text) = 1881
    /\ d_ocr_date = [year |-> 1881, confidence |-> 800]

\* title and notes as extract_year_from_title reads them
title_and_notes == d_row.item_title \o d_row.notes

\* the text holds a year right after one of the subject-indicating verbs
subject_year(tokens) ==
    \E i \in 1..(Len(tokens) - 1) :
        /\ Lower(tokens[i].w) \in {"discussing", "about", "commemorating",
                                    "founded", "established"}
        /\ LeadingYear(tokens[i + 1]) # None

\* C28: for an item that is not modern documentation the title/notes result
\* is that of the first strategy that applies: an explicit marker (dated,
\* published or printed followed by a year, or a year at the end of the
\* text) gives that year with 0.8; else a year range gives its start year
\* with 0.7; else a year after a subject-indicating verb gives (none, 0.0),
\* other bare years notwithstanding; else the latest bare year comes with
\* 0.4; else (none, 0.0).
C28_TitleStrategiesInOrder ==
    (d_pc = "done" /\ d_row.item_type \notin {"photograph_of_display", "notecard"})
    => IF explicit_year(title_and_notes) # None
       THEN d_title_date = [year |-> explicit_year(title_and_notes), confidence |-> 800]
       ELSE IF extract_date_range(title_and_notes) # None
       THEN d_title_date = [year |-> extract_date_range(title_and_notes),
                            confidence |-> 700]
       ELSE IF subject_year(title_and_notes)
       THEN d_title_date = [year |-> None, confidence |-> 0]
       ELSE IF YearsIn(title_and_notes) # << >>
       THEN d_title_date = [year |-> MaxSeq(YearsIn(title_and_notes)),
                            confidence |-> 400]
       ELSE d_title_date = [year |-> None, confidence |-> 0]

\* a title with a year after 'founded' and a later bare year has given no
\* year
C28_Witness ==
    /\ d_pc = "done"
    /\ d_row.item_type = "letter"
    /\ subject_year(title_and_notes)
    /\ Len(YearsIn(title_and_notes)) = 2
    /\ d_title_date = [year |-> None, confidence |-> 0]

\* the medium-confidence OCR rule is the one that produced the result: the
\* two rules before it did not apply and the heuristic has a year with at
\* least 0.5
medium_ocr_rule_decides ==
    /\ d_row.item_type \notin {"photograph_of_display", "notecard"}
    /\ ~(d_ocr_date.year # None /\ d_ocr_date.confidence >= 700
          /\ d_ocr_confidence >= 700)
    /\ ~(d_title_date.year # None /\ d_title_date.confidence >= 700)
    /\ d_ocr_date.year # None
    /\ d_ocr_date.confidence >= 500

\* C29: a result with source 'ocr_text' has both the confidence of the OCR
\* heuristic and the confidence of the OCR run at 0.7 or more, and a result
\* of the medium-confidence OCR rule always has source 'ocr_text_uncertain'.
C29_OcrTextNeedsBothConfidences ==
    d_pc = "done" =>
        /\ d_result.source = "ocr_text" =>
               (d_ocr_date.confidence >= 700 /\ d_ocr_confidence >= 700)
        /\ medium_ocr_rule_decides => d_result.source = "ocr_text_uncertain"

\* the medium rule has decided for a heuristic of 0.7 or more because the
\* OCR run was rated just below 0.7
C29_Witness ==
    /\ d_pc = "done"
    /\ medium_ocr_rule_decides
    /\ d_ocr_date.confidence >= 700
    /\ d_ocr_confidence = 699
    /\ d_result.source = "ocr_text_uncertain"

(***************************************************************************)
(* Properties of the inventory dedupe                                      *)
(***************************************************************************)
\* the key of a row: its sha256 or, without one, its relative_path
inventory_key(r) == IF r.sha256 \in {absent, ""} THEN r.relative_path ELSE r.sha256

\* the position in 'rows' of the first row of key 'key' whose score is the
\* highest among the rows of that key
first_best(rows, key) ==
    LET same == {i \in 1..Len(rows) : inventory_key(rows[i]) = key}
        best == {i \in same : \A o \in same : score(rows[i]) >= score(rows[o])}
    IN CHOOSE i \in best : \A o \in best : i <= o

\* C30: after a run the inventory has exactly one row for every key of the
\* rows read and no other row, that row being the first of the rows read with
\* the highest score of its key; and a run over the result of a run leaves
\* the inventory as it was.
C30_OneBestRowPerKeyAndIdempotent ==
    dedupe_runs >= 1 =>
        /\ \A i \in 1..Len(csv_before) :
              Cardinality({j \in 1..Len(in_csv) :
                  inventory_key(in_csv[j]) = inventory_key(csv_before[i])}) = 1
        /\ \A j \in 1..Len(in_csv) :
              in_csv[j] = written_row(
                  csv_before[first_best(csv_before, inventory_key(in_csv[j]))])
        /\ dedupe_runs >= 2 => in_csv = csv_before

\* a first run read three rows, two of them with the same digest and the same
\* score and one without a digest, and kept two
C30_Witness ==
    /\ dedupe_runs = 1
    /\ Len(csv_before) = 3
    /\ Len(in_csv) = 2
    /\ \E i, j \in 1..3 :
          /\ i < j
          /\ csv_before[i].sha256 # ""
          /\ csv_before[i].sha256 = csv_before[j].sha256
          /\ score(csv_before[i]) = score(csv_before[j])
          /\ csv_before[i].id # csv_before[j].id
          /\ \E k \in 1..2 : in_csv[k].id = csv_before[i].id
    /\ \E i \in 1..3 : csv_before[i].sha256 = ""

(***************************************************************************)
(* Properties of the grouping of similarities                              *)
(***************************************************************************)
\* the similarity the list holds for two images, 0 if it holds none
listed_similarity(sims, a, b) ==
    IF \E k \in 1..Len(sims) : {sims[k][1], sims[k][2]} = {a, b}
    THEN sims[CHOOSE k \in 1..Len(sims) : {sims[k][1], sims[k][2]} = {a, b}][3]
    ELSE 0

\* the images a list of similarities mentions
listed_ids(sims) == {sims[k][1] : k \in 1..Len(sims)} \cup {sims[k][2] : k \in 1..Len(sims)}

\* the three pairs of three images have the similarities 0.9, 0.9 and 0.2
two_high_one_low ==
    /\ Len(all_similarities_list) = 3
    /\ Cardinality(listed_ids(all_similarities_list)) = 3
    /\ \E k \in 1..3 :
          /\ all_similarities_list[k][3] = 200
          /\ \A h \in (1..3) \ {k} : all_similarities_list[h][3] = 900

\* C11 (as claimed): when the three pairs of three images of a session have
\* the similarities 0.9, 0.9 and 0.2, the two images of a 0.9 pair form a
\* component of two with a confidence of about 0.75 (0.70 to 0.80) and the
\* third image is in no component.
C11_TwoSimilarGroupedThirdAlone ==
    (s_pc = "done" /\ two_high_one_low)
    => /\ Len(group_proposals) = 1
       /\ Len(group_proposals[1].member_ids) = 2
       /\ listed_similarity(all_similarities_list,
                             group_proposals[1].member_ids[1],
                             group_proposals[1].member_ids[2]) = 900
       /\ group_proposals[1].confidence \in 700..800

\* C11 (amended): when the three pairs of three images of a session have the
\* similarities 0.9, 0.9 and 0.2, the two 0.9 pairs share an image, so all
\* three images form one component; its confidence is 0.527 (mean 0.667
\* weighted 0.7 plus minimum 0.2 weighted 0.3) and it is flagged for review.
C11_TwoHighPairsChainAllThree ==
    (s_pc = "done" /\ two_high_one_low)
    => /\ Len(group_proposals) = 1
       /\ Len(content_groups) = 1
       /\ {group_proposals[1].member_ids[h] : h \in 1..3}
             = listed_ids(all_similarities_list)
       /\ Len(group_proposals[1].member_ids) = 3
       /\ group_proposals[1].confidence = 527
       /\ group_proposals[1].needs_review

\* the three images have been grouped from similarities 0.9, 0.9 and 0.2
C11_Witness ==
    /\ s_pc = "done"
    /\ two_high_one_low
    /\ Len(group_proposals) = 1
    /\ Len(group_proposals[1].member_ids) = 3

\* the pairs of images whose listed similarity is 0.40 or more
strong_pairs(sims) ==
    {{sims[k][1], sims[k][2]} : k \in {h \in 1..Len(sims) : sims[h][3] >= 400}}

\* the images reached from those of S along chains of such pairs
RECURSIVE chained_to(_, _)
chained_to(S, pairs) ==
    LET T == S \cup {x \in UNION pairs : \E e \in pairs : x \in e /\ e \cap S # {}}
    IN IF T = S THEN S ELSE chained_to(T, pairs)

\* the groups of find_content_groups as a set of sets of images
partition_of(groups) == {MemberSet(groups[g]) : g \in 1..Len(groups)}

\* orders in which a list of n pairs is handed over: every order for up to
\* four pairs; for longer lists the reversed one, the rotations and the
\* exchanges of two neighbours
reorderings(n) ==
    IF n <= 4 THEN Permutations(1..n)
    ELSE {[k \in 1..n |-> n + 1 - k]}
         \cup {[k \in 1..n |-> ((k + r - 1) % n) + 1] : r \in 0..(n - 1)}
         \cup {[k \in 1..n |-> IF k = t THEN t + 1 ELSE IF k = t + 1 THEN t ELSE k] :
                  t \in 1..(n - 1)}

\* C22: two images are in the same group of find_content_groups if and only
\* if a chain of pairs of similarity 0.40 or more connects them (so a pair
\* below 0.40 joins nothing that is not connected otherwise); no image is in
\* two groups; and the groups, as sets, are the same in whatever order the
\* pairs are processed.
C22_GroupsAreChainsOfMediumPairs ==
    s_pc = "done" =>
        /\ \A a, b \in listed_ids(all_similarities_list) :
              a # b =>
                 ((\E g \in 1..Len(content_groups) :
                      {a, b} \subseteq MemberSet(content_groups[g]))
                  <=> b \in chained_to({a}, strong_pairs(all_similarities_list)))
        /\ \A g \in 1..Len(content_groups) :
              /\ Cardinality(MemberSet(content_groups[g]))
                    = Len(content_groups[g].member_ids)
              /\ \A h \in 1..Len(content_groups) :
                    g # h => MemberSet(content_groups[g])
                               \cap MemberSet(content_groups[h]) = {}
        /\ \A perm \in reorderings(Len(all_similarities_list)) :
              partition_of(find_content_groups(
                  [k \in 1..Len(all_similarities_list) |->
                      all_similarities_list[perm[k]]], MEDIUM_SIMILARITY))
                = partition_of(content_groups)

\* three images have been grouped through two pairs of 0.40 or more while
\* the third pair, at 0.399, would not have joined its two images
C22_Witness ==
    /\ s_pc = "done"
    /\ Len(content_groups) = 1
    /\ Len(content_groups[1].member_ids) = 3
    /\ \E k \in 1..Len(all_similarities_list) : all_similarities_list[k][3] = 399
    /\ \E k \in 1..Len(all_similarities_list) : all_similarities_list[k][3] = 400

====
